---- MODULE Spec2Model ----
(***************************************************************************)
(* The preimage beacon of lnd (witness beacon with external preimages):    *)
(* SubscribeUpdates, LookupPreimage, AddPreimage, pollExtpreimage and Stop *)
(* of preimageBeacon, the resolution glue ContractTerm.GetPaymentPreimage  *)
(* and the external preimage client's Retrieve.                            *)
(*                                                                         *)
(* Goroutines are interleaved at the points where the code can block or    *)
(* where it touches shared state without the beacon's lock.  A section of  *)
(* code that runs under p.Lock() and cannot block is one atomic step.      *)
(***************************************************************************)
EXTENDS Integers, Sequences, FiniteSets, TLC

(***************************************************************************)
(* Bounds of the model.                                                    *)
(***************************************************************************)
\* SubscribeUpdates calls in a run of the subscription actions alone
MaxSubs == 2
\* AddPreimage calls by callers in a run of the subscription actions alone
MaxAdds == 2
\* SubscribeUpdates calls in a run with polls
BeaconSubs == 1
\* AddPreimage calls by callers other than polls in a run with lookups
BeaconAdds == 1
\* LookupPreimage calls made in a run (each may start one poll)
MaxLookups == 2
\* ticker ticks in a run, over all polls
MaxTicks == 2
\* Stop calls made in a run
MaxStops == 1
\* Retrieve and GetPaymentPreimage calls in a run of the client alone
MaxCalls == 2
\* messages the server can put on one stream
MaxStream == 2

(***************************************************************************)
(* Values.  A [32]byte value is a small integer; 0 is the all-zero array.  *)
(***************************************************************************)
ZeroPreimage == 0
ZeroHash == 0
Preimages == {1, 2}

\* crypto/sha256.Sum256 on the values of the model: injective, never the
\* all-zero array, and no value is its own digest.
Sha256(b) == 2 * b + 3

\* the payment hash the run's invoice and lookups are about
Hashes == {Sha256(1)}

\* the nil error
Nil == "nil"

\* the nil []byte LookupPreimage returns when it finds nothing: no [32]byte value
NilBytes == -1

(***************************************************************************)
(* External preimage client: Retrieve.                                     *)
(***************************************************************************)
\* What the streaming call can come back with: a failed dial, a failed
\* GetPreimage, io.EOF or another error from Recv, or one message.
RpcReplies(hash) ==
    {[kind |-> k, PermanentError |-> "", len |-> 0, PaymentPreimage |-> ZeroPreimage] :
        k \in {"dialErr", "openErr", "eof", "recvErr"}}
    \cup {[kind |-> "msg", PermanentError |-> "boom", len |-> 0,
           PaymentPreimage |-> ZeroPreimage]}
    \cup {[kind |-> "msg", PermanentError |-> "", len |-> l, PaymentPreimage |-> pre] :
            l \in {31, 32}, pre \in Preimages}

\* symbol falling back to BTC for a chain it does not know
symbolDefaultsToBTC(chain) ==
    IF chain = "litecoin" THEN [sym |-> "LTC", err |-> Nil]
    ELSE [sym |-> "BTC", err |-> Nil]

\* client.symbol
symbol(chain) ==
    IF chain = "bitcoin" THEN [sym |-> "BTC", err |-> Nil]
    ELSE IF chain = "litecoin" THEN [sym |-> "LTC", err |-> Nil]
    ELSE [sym |-> "BTC", err |-> "Invalid chain name"]

\* client.retrieve: the stream reduced to one response or one error
retrieve(reply) ==
    CASE reply.kind = "dialErr" -> [res |-> Nil, err |-> "Failed to start gRPC connection"]
      [] reply.kind = "openErr" -> [res |-> Nil, err |-> "stream open error"]
      [] reply.kind = "eof" -> [res |-> Nil, err |-> "server closed stream early"]
      [] reply.kind = "recvErr" -> [res |-> Nil, err |-> "transport error"]
      [] OTHER -> [res |-> reply, err |-> Nil]

\* Retrieve without the comparison of the preimage's digest to the hash
RetrieveNoHashCheck(chain, req, reply) ==
    LET none == [preimage |-> ZeroPreimage, tempErr |-> Nil, permErr |-> Nil]
        r == retrieve(reply)
    IN  IF symbol(chain).err # Nil
        THEN [none EXCEPT !.tempErr = symbol(chain).err]
        ELSE IF r.err # Nil
        THEN [none EXCEPT !.tempErr = r.err]
        ELSE IF r.res.PermanentError # ""
        THEN [none EXCEPT !.permErr = r.res.PermanentError]
        ELSE IF r.res.len # 32
        THEN [none EXCEPT !.tempErr = "Returned preimage was of wrong length"]
        ELSE [none EXCEPT !.preimage = r.res.PaymentPreimage]

\* Retrieve reporting a preimage that does not match the hash as permanent
RetrieveMismatchPermanent(chain, req, reply) ==
    LET r == RetrieveNoHashCheck(chain, req, reply)
    IN  IF r.tempErr = Nil /\ r.permErr = Nil
           /\ Sha256(r.preimage) # req.PaymentHash
        THEN [r EXCEPT !.preimage = ZeroPreimage,
                       !.permErr = "Returned preimage did not match provided hash"]
        ELSE r

\* Retrieve copying the received bytes before it compares their digest
RetrieveCopiesFirst(chain, req, reply) ==
    LET r == RetrieveNoHashCheck(chain, req, reply)
    IN  IF r.tempErr = Nil /\ r.permErr = Nil
           /\ Sha256(r.preimage) # req.PaymentHash
        THEN [r EXCEPT !.tempErr = "Returned preimage did not match provided hash"]
        ELSE r

\* Retrieve reporting a preimage of the wrong length as permanent
RetrieveLengthPermanent(chain, req, reply) ==
    LET r == RetrieveNoHashCheck(chain, req, reply)
    IN  IF r.tempErr = "Returned preimage was of wrong length"
        THEN [r EXCEPT !.tempErr = Nil, !.permErr = "Returned preimage was of wrong length"]
        ELSE IF r.tempErr = Nil /\ r.permErr = Nil
                /\ Sha256(r.preimage) # req.PaymentHash
        THEN [r EXCEPT !.preimage = ZeroPreimage,
                       !.tempErr = "Returned preimage did not match provided hash"]
        ELSE r

\* client.Retrieve: (preimage, temporary error, permanent error)
Retrieve(chain, req, reply) ==
    LET none == [preimage |-> ZeroPreimage, tempErr |-> Nil, permErr |-> Nil]
        r == retrieve(reply)
    IN  IF symbol(chain).err # Nil
        THEN [none EXCEPT !.tempErr = symbol(chain).err]
        ELSE IF r.err # Nil
        THEN [none EXCEPT !.tempErr = r.err]
        ELSE IF r.res.PermanentError # ""
        THEN [none EXCEPT !.permErr = r.res.PermanentError]
        ELSE IF r.res.len # 32
        THEN [none EXCEPT !.tempErr = "Returned preimage was of wrong length"]
        ELSE IF Sha256(r.res.PaymentPreimage) # req.PaymentHash
        THEN [none EXCEPT !.tempErr = "Returned preimage did not match provided hash"]
        ELSE [none EXCEPT !.preimage = r.res.PaymentPreimage]

(***************************************************************************)
(* Resolution glue: ContractTerm.GetPaymentPreimage.                       *)
(***************************************************************************)
\* the conversion rounding to the nearest satoshi
ToSatoshisRounded(msat) == (msat + 500) \div 1000

\* lnwire.MilliSatoshi.ToSatoshis
ToSatoshis(msat) == msat \div 1000

\* The request GetPaymentPreimage builds for the external client.
PreimageRequest(c, timeLock, currentHeight) ==
    [PaymentHash |-> c.PaymentHash, Amount |-> ToSatoshis(c.Value),
     TimeLock |-> timeLock, BestHeight |-> currentHeight]

\* Whether GetPaymentPreimage goes to the remote service for term c: no local
\* preimage, marked external, a client configured and a chain it can map.
CallsRemote(c, noClient, chain) ==
    /\ c.PaymentPreimage = ZeroPreimage
    /\ c.ExternalPreimage
    /\ ~noClient
    /\ symbol(chain).err = Nil

\* GetPaymentPreimage with the external case tried before the local preimage
GetPaymentPreimageExternalFirst(c, timeLock, currentHeight, noClient, chain, reply, regErr) ==
    LET none == [preimage |-> ZeroPreimage, tempErr |-> Nil, permErr |-> Nil,
                 persist |-> FALSE, remote |-> FALSE]
        r == Retrieve(chain, PreimageRequest(c, timeLock, currentHeight), reply)
    IN  IF c.ExternalPreimage
        THEN IF noClient
             THEN [none EXCEPT !.tempErr = "no extpreimage client configured"]
             ELSE IF r.permErr # Nil
             THEN [none EXCEPT !.permErr = r.permErr, !.remote = TRUE]
             ELSE IF r.tempErr # Nil
             THEN [none EXCEPT !.tempErr = r.tempErr, !.remote = TRUE]
             ELSE IF regErr # Nil
             THEN [none EXCEPT !.tempErr = regErr, !.remote = TRUE]
             ELSE [none EXCEPT !.preimage = r.preimage, !.persist = TRUE,
                               !.remote = TRUE]
        ELSE IF c.PaymentPreimage # ZeroPreimage
        THEN [none EXCEPT !.preimage = c.PaymentPreimage]
        ELSE [none EXCEPT !.permErr = "no preimage available on invoice"]

\* GetPaymentPreimage handing every error of Retrieve back as temporary
GetPaymentPreimageMergesErrors(c, timeLock, currentHeight, noClient, chain, reply, regErr) ==
    LET none == [preimage |-> ZeroPreimage, tempErr |-> Nil, permErr |-> Nil,
                 persist |-> FALSE, remote |-> FALSE]
        r == Retrieve(chain, PreimageRequest(c, timeLock, currentHeight), reply)
    IN  IF c.PaymentPreimage # ZeroPreimage
        THEN [none EXCEPT !.preimage = c.PaymentPreimage]
        ELSE IF c.ExternalPreimage
        THEN IF noClient
             THEN [none EXCEPT !.tempErr = "no extpreimage client configured"]
             ELSE IF r.permErr # Nil
             THEN [none EXCEPT !.tempErr = r.permErr, !.remote = TRUE]
             ELSE IF r.tempErr # Nil
             THEN [none EXCEPT !.tempErr = r.tempErr, !.remote = TRUE]
             ELSE IF regErr # Nil
             THEN [none EXCEPT !.tempErr = regErr, !.remote = TRUE]
             ELSE [none EXCEPT !.preimage = r.preimage, !.persist = TRUE,
                               !.remote = TRUE]
        ELSE [none EXCEPT !.permErr = "no preimage available on invoice"]

\* GetPaymentPreimage returning the retrieved preimage though the write failed
GetPaymentPreimageIgnoresWriteError(c, timeLock, currentHeight, noClient, chain, reply, regErr) ==
    LET none == [preimage |-> ZeroPreimage, tempErr |-> Nil, permErr |-> Nil,
                 persist |-> FALSE, remote |-> FALSE]
        r == Retrieve(chain, PreimageRequest(c, timeLock, currentHeight), reply)
    IN  IF c.PaymentPreimage # ZeroPreimage
        THEN [none EXCEPT !.preimage = c.PaymentPreimage]
        ELSE IF c.ExternalPreimage
        THEN IF noClient
             THEN [none EXCEPT !.tempErr = "no extpreimage client configured"]
             ELSE IF r.permErr # Nil
             THEN [none EXCEPT !.permErr = r.permErr, !.remote = TRUE]
             ELSE IF r.tempErr # Nil
             THEN [none EXCEPT !.tempErr = r.tempErr, !.remote = TRUE]
             ELSE [none EXCEPT !.preimage = r.preimage, !.persist = (regErr = Nil),
                               !.remote = TRUE]
        ELSE [none EXCEPT !.permErr = "no preimage available on invoice"]

\* GetPaymentPreimage(timeLock, currentHeight, client, registry) on term c,
\* given what the remote call comes back with (reply) and whether the
\* registry's AddInvoicePreimage fails (regErr).  persist tells whether the
\* preimage was written to the Invoice Store under c.PaymentHash.
GetPaymentPreimage(c, timeLock, currentHeight, noClient, chain, reply, regErr) ==
    LET none == [preimage |-> ZeroPreimage, tempErr |-> Nil, permErr |-> Nil,
                 persist |-> FALSE, remote |-> FALSE]
        r == Retrieve(chain, PreimageRequest(c, timeLock, currentHeight), reply)
    IN  IF c.PaymentPreimage # ZeroPreimage
        THEN [none EXCEPT !.preimage = c.PaymentPreimage]
        ELSE IF c.ExternalPreimage
        THEN IF noClient
             THEN [none EXCEPT !.tempErr = "no extpreimage client configured"]
             ELSE IF r.permErr # Nil
             THEN [none EXCEPT !.permErr = r.permErr, !.remote = TRUE]
             ELSE IF r.tempErr # Nil
             THEN [none EXCEPT !.tempErr = r.tempErr, !.remote = TRUE]
             ELSE IF regErr # Nil
             THEN [none EXCEPT !.tempErr = regErr, !.remote = TRUE]
             ELSE [none EXCEPT !.preimage = r.preimage, !.persist = TRUE,
                               !.remote = TRUE]
        ELSE [none EXCEPT !.permErr = "no preimage available on invoice"]

(***************************************************************************)
(* State.                                                                  *)
(***************************************************************************)
VARIABLES
    invoices,       \* Invoice Store: payment hash -> contract term, or NoInvoice
    wCache,         \* Witness Store: the sha256 witnesses it holds
    clientNil,      \* p.extpreimageClient == nil
    limits,         \* how many calls of each operation the callers make in the run
    clientCounter,  \* p.clientCounter
    subscribers,    \* p.subscribers: the ids in the map
    updateChan,     \* subscriber id -> contents of its updateChan
    quitClosed,     \* subscriber ids whose quit channel is closed
    closedTwice,    \* subscriber ids whose closed quit channel was closed again
    sends,          \* the notification goroutines AddPreimage started, still pending
    pollCounter,    \* p.pollCounter
    polls,          \* p.polls: pollID -> the poll goroutine whose quit channel it holds
    pollG,          \* poll goroutines
    lk,             \* LookupPreimage calls
    stopG,          \* Stop calls
    addLog,         \* history: the AddPreimage calls made, in order
    placed,         \* history: <<subscriber, add>> -> values put on its updateChan
    lastRet,        \* history: hash -> what the last LookupPreimage returned for
                    \* it, NoRet once a store was written since
    cli,            \* the external preimage client: chain, conn, pool, dial history
    calls           \* Retrieve / GetPaymentPreimage calls made on the client

vars == <<invoices, wCache, clientNil, limits, clientCounter, subscribers, updateChan,
          quitClosed, sends, pollCounter, polls, pollG, lk, stopG, addLog, placed,
          lastRet, cli, calls, closedTwice>>

envVars == <<clientNil, limits, cli, calls>>
beaconVars == <<clientCounter, subscribers, updateChan, quitClosed, sends>>
pollVars == <<pollCounter, polls, pollG>>

\* the zero channeldb.Invoice LookupInvoice returns with an error
NoInvoice == [found |-> FALSE, ExternalPreimage |-> FALSE, PaymentHash |-> ZeroHash,
              PaymentPreimage |-> ZeroPreimage, Value |-> 0]

\* size of updateChan: make(chan []byte, 10)
UpdateChanCap == 10

\* the chain name the client was built with (extpreimage.New accepts
\* bitcoin and litecoin only)
ConfiguredChain == "bitcoin"

SubIds == 0 .. (MaxSubs - 1)
LookupIds == 1 .. MaxLookups
StopIds == 1 .. MaxStops
\* an AddPreimage call is made by a caller (0) or by the poll of lookup n
AddIds == 1 .. (MaxAdds + MaxLookups)

\* An invoice made locally: its preimage is stored, its key is the digest.
LocalTerm(pre) ==
    [found |-> TRUE, ExternalPreimage |-> FALSE, PaymentHash |-> ZeroHash,
     PaymentPreimage |-> pre, Value |-> 1000]

\* An invoice with an external preimage: only the hash is stored.
ExternalTerm(hash) ==
    [found |-> TRUE, ExternalPreimage |-> TRUE, PaymentHash |-> hash,
     PaymentPreimage |-> ZeroPreimage, Value |-> 1000]

\* GetPaymentHash hashing a stored preimage whatever the term's kind
GetPaymentHashPrefersPreimage(c) ==
    IF c.PaymentPreimage # ZeroPreimage
    THEN [hash |-> Sha256(c.PaymentPreimage), err |-> Nil]
    ELSE IF c.ExternalPreimage /\ c.PaymentHash # ZeroHash
    THEN [hash |-> c.PaymentHash, err |-> Nil]
    ELSE [hash |-> ZeroHash, err |-> "must have a preimage or use ExternalPreimages"]

\* ContractTerm.GetPaymentHash, the key an invoice is stored under
GetPaymentHash(c) ==
    IF c.ExternalPreimage
    THEN IF c.PaymentHash = ZeroHash
         THEN [hash |-> ZeroHash, err |-> "must have a locally defined PaymentHash"]
         ELSE [hash |-> c.PaymentHash, err |-> Nil]
    ELSE IF c.PaymentPreimage = ZeroPreimage
         THEN [hash |-> ZeroHash, err |-> "must have a preimage or use ExternalPreimages"]
         ELSE [hash |-> Sha256(c.PaymentPreimage), err |-> Nil]

\* history: no LookupPreimage has returned for the hash since the last write
NoRet == [preimage |-> NilBytes, found |-> FALSE, via |-> "none"]
IdlePoll == [pc |-> "none", term |-> NoInvoice, pollID |-> 0, ticks |-> 0,
             hist |-> <<>>, pre |-> ZeroPreimage, wrote |-> 0, sig |-> FALSE]
IdleLookup == [pc |-> "idle", hash |-> ZeroHash, term |-> NoInvoice,
               invErr |-> Nil, preimage |-> NilBytes, found |-> FALSE, via |-> "none",
               poll |-> FALSE, prev |-> NoRet]
\* what a LookupPreimage call gives back: (nil, false) until it finds one
NotFound == [preimage |-> NilBytes, found |-> FALSE]
NoPoll == 0
PollKeys == 0 .. (MaxLookups - 1)
IdleStop == [pc |-> "idle", visited |-> {}, target |-> NoPoll,
             snap |-> [id \in PollKeys |-> NoPoll],
             left |-> [id \in PollKeys |-> NoPoll], subs |-> {}]

CallIds == 1 .. MaxCalls

\* the pool's capacity: grpcpool.New(factory, 5, 5, time.Second)
PoolCap == 5

\* the chain names a caller may pass to New
ChainNames == {"bitcoin", "litecoin", "dogecoin"}

\* the host the client is built for
RPCHost == "localhost:40000"

\* No client built yet.  state: none, made, or failed (New returned an
\* error).  conn: 0 is nil, n > 0 the n-th connection dialled.  dialLog: the
\* Dial calls made, in order.  out: connections checked out of the pool.
\* wire: the requests sent to the server, in order.  overlap: two calls have
\* been in flight together.  named: the ChainName New was called with.
NoClient == [state |-> "none", pooled |-> FALSE, host |-> RPCHost, chain |-> "",
             named |-> "",
             conn |-> 0, dialLog |-> <<>>, out |-> 0, wire |-> <<>>,
             overlap |-> FALSE]

\* the zero extpreimage.PreimageRequest, GetPreimageRequest and Retrieve result
NoRequest == [PaymentHash |-> ZeroHash, Amount |-> 0, TimeLock |-> 0, BestHeight |-> 0]
NoWire == [PaymentHash |-> ZeroHash, Amount |-> 0, Symbol |-> "", TimeLock |-> 0,
           BestHeight |-> 0]
NoResult == [preimage |-> ZeroPreimage, tempErr |-> Nil, permErr |-> Nil]
NoReply == [kind |-> "none", PermanentError |-> "", len |-> 0,
            PaymentPreimage |-> ZeroPreimage]

\* A call not made yet.  glue: the call is GetPaymentPreimage on term (with
\* timeLock, height), else Retrieve(req) by a caller.  remote: Retrieve was
\* entered.  dialed / reused / got: what connect did.  stream: what the
\* server will send.  reads: Recv calls made.  res: what Retrieve returned.
\* g: what GetPaymentPreimage returned.  regErr: what the registry write
\* returned.  timeLock, currentHeight: the arguments of GetPaymentPreimage.
\* hashed: the call is GetPaymentHash on term; hash: its result.
IdleCall == [pc |-> "idle", glue |-> FALSE, term |-> NoInvoice, noClient |-> FALSE,
             req |-> NoRequest, chain |-> "", rpcReq |-> NoWire, remote |-> FALSE,
             sawConn |-> 0, dialed |-> FALSE, reused |-> FALSE, got |-> FALSE,
             sent |-> FALSE, stream |-> <<>>, reads |-> 0, reply |-> NoReply,
             res |-> NoResult,
             g |-> [preimage |-> ZeroPreimage, tempErr |-> Nil, permErr |-> Nil,
                    persist |-> FALSE, remote |-> FALSE],
             regErr |-> Nil, timeLock |-> 0, currentHeight |-> 0, hashed |-> FALSE,
             hash |-> [hash |-> ZeroHash, err |-> Nil]]

\* The beacon as constructed; the stores and the client are as the node has them.
InitBeacon ==
    /\ wCache = {}
    /\ clientCounter = 0
    /\ subscribers = {}
    /\ updateChan = [s \in SubIds |-> <<>>]
    /\ quitClosed = {}
    /\ closedTwice = {}
    /\ sends = {}
    /\ pollCounter = 0
    /\ polls = [id \in PollKeys |-> NoPoll]
    /\ pollG = [n \in LookupIds |-> IdlePoll]
    /\ lk = [n \in LookupIds |-> IdleLookup]
    /\ stopG = [t \in StopIds |-> IdleStop]
    /\ addLog = <<>>
    /\ placed = [x \in SubIds \X AddIds |-> <<>>]
    /\ lastRet = [h \in Hashes |-> NoRet]
    /\ cli = NoClient
    /\ calls = [k \in CallIds |-> IdleCall]

\* Every invoice is stored under the hash GetPaymentHash gives for it.
InitNode ==
    /\ InitBeacon
    /\ invoices \in [Hashes -> {NoInvoice} \cup {LocalTerm(pre) : pre \in Preimages}
                                \cup {ExternalTerm(h) : h \in Hashes}]
    /\ \A h \in Hashes : invoices[h].found => GetPaymentHash(invoices[h]).hash = h
    /\ clientNil \in BOOLEAN
    /\ clientNil => \E h \in Hashes : invoices[h].ExternalPreimage

(***************************************************************************)
(* The beacon's read/write lock.  Every section under p.Lock() is one      *)
(* step, so the lock is held across steps only by LookupPreimage calls,    *)
(* which keep the read lock while they wait for the remote service.        *)
(***************************************************************************)
Readers == {n \in LookupIds : lk[n].pc = "recv"}

\* a lock that AddPreimage keeps until its deliveries are done
CanLockAfterDeliveries == Readers = {} /\ sends = {}

CanLock == Readers = {}

(***************************************************************************)
(* SubscribeUpdates and the cancel function it returns.                    *)
(***************************************************************************)
\* a counter that is read for the id and left as it was
NextClientIDStuck(counter) == counter

\* p.clientCounter++
NextClientID(counter) == counter + 1

SubscribeUpdates ==
    /\ CanLock
    /\ clientCounter < limits.subs
    /\ subscribers' = subscribers \cup {clientCounter}
    /\ updateChan' = [updateChan EXCEPT ![clientCounter] = <<>>]
    /\ clientCounter' = NextClientID(clientCounter)
    /\ UNCHANGED <<invoices, wCache, envVars, closedTwice, quitClosed, sends, pollVars,
                   lk, stopG, addLog, placed, lastRet>>

\* a cancel function that leaves p.subscribers as it is
CancelRemovesNone(clientID) == {}

\* a cancel function that empties p.subscribers
CancelRemovesAll(clientID) == subscribers

\* the subscriber ids the cancel function removes from p.subscribers
CancelRemoves(clientID) == {clientID}

CancelSubscription(clientID) ==
    /\ CanLock
    /\ clientID < clientCounter
    /\ clientID \notin quitClosed
    /\ subscribers' = subscribers \ CancelRemoves(clientID)
    /\ quitClosed' = quitClosed \cup {clientID}
    /\ UNCHANGED <<invoices, wCache, envVars, closedTwice, clientCounter, updateChan, sends,
                   pollVars, lk, stopG, addLog, placed, lastRet>>

\* A further call of a cancel function: under the lock the delete finds no
\* entry, and close(client.quit) is a close of a closed channel, which panics.
CancelAgain(clientID) ==
    /\ CanLock
    /\ clientID \in quitClosed
    /\ clientID \notin closedTwice
    /\ subscribers' = subscribers \ CancelRemoves(clientID)
    /\ closedTwice' = closedTwice \cup {clientID}
    /\ UNCHANGED <<invoices, wCache, envVars, clientCounter, updateChan, quitClosed,
                   sends, pollVars, lk, stopG, addLog, placed, lastRet>>

(***************************************************************************)
(* AddPreimage and the notification goroutines it starts.                  *)
(***************************************************************************)
\* the witness cache's AddWitness can fail
StoreErrs == {Nil, "store error"}

\* AddPreimage without the early return on a failed AddWitness
NotifyTargetsAlways(err) == subscribers

\* the subscribers AddPreimage starts a notification goroutine for
NotifyTargets(err) == IF err # Nil THEN {} ELSE subscribers

\* what AddPreimage returns when AddWitness returned err
AddPreimageReturn(err) == err

\* the subscriptions SubscribeUpdates has handed out so far
Subscribed == {s \in SubIds : s < clientCounter}

\* A store write ends every "no write since" history: lastRet is forgotten,
\* and so is what a call still in flight saw when it began.
ForgetRets(l) == [n \in LookupIds |-> [l[n] EXCEPT !.prev = NoRet]]

\* AddPreimage(pre) called by `by` (0: a caller, n: the poll of lookup n),
\* with AddWitness returning werr: the section under p.Lock().
AddPreimageBy(by, pre, werr) ==
    LET a == Len(addLog) + 1
    IN  /\ wCache' = IF werr = Nil THEN wCache \cup {pre} ELSE wCache
        /\ sends' = sends \cup {[sub |-> s, pre |-> pre, add |-> a] :
                                   s \in NotifyTargets(werr)}
        /\ addLog' = Append(addLog, [by |-> by, pre |-> pre, werr |-> werr,
                                     ret |-> AddPreimageReturn(werr),
                                     subs |-> Subscribed \ quitClosed,
                                     cancelled |-> quitClosed])
        /\ lastRet' = IF werr = Nil THEN [h \in Hashes |-> NoRet] ELSE lastRet

CallerAdds == Cardinality({a \in 1 .. Len(addLog) : addLog[a].by = 0})

AddPreimage(pre, werr) ==
    /\ CanLock
    /\ CallerAdds < limits.adds
    /\ AddPreimageBy(0, pre, werr)
    /\ lk' = IF werr = Nil THEN ForgetRets(lk) ELSE lk
    /\ UNCHANGED <<invoices, envVars, closedTwice, clientCounter, subscribers, updateChan,
                   quitClosed, pollVars, stopG, placed>>

\* a notification goroutine that only sends and has no quit case
NotifyWithoutQuit(d) ==
    /\ d \in sends
    /\ sends' = sends \ {d}
    /\ Len(updateChan[d.sub]) < UpdateChanCap
    /\ updateChan' = [updateChan EXCEPT ![d.sub] = Append(@, d.pre)]
    /\ placed' = [placed EXCEPT ![<<d.sub, d.add>>] = Append(@, d.pre)]
    /\ UNCHANGED <<invoices, wCache, envVars, closedTwice, clientCounter, subscribers,
                   quitClosed, pollVars, lk, stopG, addLog, lastRet>>

\* One notification goroutine: select { case c.updateChan <- pre: ; case
\* <-c.quit: return }.  When both cases are ready the select picks either.
Notify(d) ==
    /\ d \in sends
    /\ sends' = sends \ {d}
    /\ \/ /\ Len(updateChan[d.sub]) < UpdateChanCap
          /\ updateChan' = [updateChan EXCEPT ![d.sub] = Append(@, d.pre)]
          /\ placed' = [placed EXCEPT ![<<d.sub, d.add>>] = Append(@, d.pre)]
       \/ /\ d.sub \in quitClosed
          /\ UNCHANGED <<updateChan, placed>>
    /\ UNCHANGED <<invoices, wCache, envVars, closedTwice, clientCounter, subscribers,
                   quitClosed, pollVars, lk, stopG, addLog, lastRet>>

\* The holder of a subscription reads the next value of WitnessUpdates.
Receive(s) ==
    /\ Len(updateChan[s]) > 0
    /\ updateChan' = [updateChan EXCEPT ![s] = Tail(@)]
    /\ UNCHANGED <<invoices, wCache, envVars, closedTwice, clientCounter, subscribers,
                   quitClosed, sends, pollVars, lk, stopG, addLog, placed, lastRet>>

(***************************************************************************)
(* The collaborating stores.                                               *)
(***************************************************************************)
\* a read or a write of a store can fail
IoErrs == {Nil, "io error"}

\* InvoiceDatabase.LookupInvoice
LookupInvoice(hash, ioErr) ==
    IF ioErr # Nil THEN [invoice |-> NoInvoice, err |-> ioErr]
    ELSE IF ~invoices[hash].found
    THEN [invoice |-> NoInvoice, err |-> "ErrInvoiceNotFound"]
    ELSE [invoice |-> invoices[hash], err |-> Nil]

\* InvoiceDatabase.AddInvoicePreimage: the Invoice Store after the write
AddInvoicePreimage(hash, preimage) ==
    [invoices EXCEPT ![hash] =
        IF @.found THEN [@ EXCEPT !.PaymentPreimage = preimage] ELSE @]

\* witnessCache.LookupWitness(Sha256HashWitness, hash): witnesses are kept
\* under their digest
LookupWitness(hash, ioErr) ==
    IF ioErr # Nil THEN [witness |-> Nil, err |-> ioErr]
    ELSE IF \E w \in wCache : Sha256(w) = hash
    THEN [witness |-> CHOOSE w \in wCache : Sha256(w) = hash, err |-> Nil]
    ELSE [witness |-> Nil, err |-> "no witnesses"]

(***************************************************************************)
(* LookupPreimage.                                                         *)
(***************************************************************************)
\* a poll started on permanent errors too
StartsPollOnAnyError(g) == g.tempErr # Nil \/ g.permErr # Nil

\* LookupPreimage runs `go p.pollExtpreimage(invoiceTerm, 10*time.Second)`
StartsPoll(g) == g.permErr = Nil /\ g.tempErr # Nil

\* what LookupPreimage returns after GetPaymentPreimage gave g
LookupResult(g) ==
    IF g.permErr # Nil \/ g.tempErr # Nil THEN NotFound
    ELSE [preimage |-> g.preimage, found |-> TRUE]

\* every LookupInvoice error treated like ErrInvoiceNotFound
ConsultsWitnessOnAnyError(err) == err # Nil

\* LookupPreimage goes on to the witness cache
ConsultsWitness(err) == err = "ErrInvoiceNotFound"

\* LookupPreimage resolves the invoice it found
Resolves(err) == err # "ErrInvoiceNotFound"

\* Call n returns ret.  wrote: the call wrote the Invoice Store.
Return(n, hash, term, invErr, ret, via, poll, wrote) ==
    /\ lk' = [m \in LookupIds |->
                IF m = n
                THEN [lk[n] EXCEPT !.pc = "done", !.hash = hash, !.term = term,
                                   !.invErr = invErr,
                                   !.preimage = ret.preimage, !.found = ret.found,
                                   !.via = via, !.poll = poll,
                                   !.prev = IF lk[n].pc = "idle" THEN lastRet[hash] ELSE @]
                ELSE IF wrote THEN [lk[m] EXCEPT !.prev = NoRet] ELSE lk[m]]
    /\ lastRet' = [h \in Hashes |->
                     IF h = hash
                     THEN [preimage |-> ret.preimage, found |-> ret.found, via |-> via]
                     ELSE IF wrote THEN NoRet ELSE lastRet[h]]
    /\ pollG' = IF poll
                THEN [pollG EXCEPT ![n] = [IdlePoll EXCEPT !.pc = "start", !.term = term]]
                ELSE pollG

\* the next LookupPreimage call of the run
NextLookup(n) ==
    /\ n <= limits.lookups
    /\ lk[n].pc = "idle"
    /\ \A m \in LookupIds : m < n => lk[m].pc # "idle"

\* LookupPreimage(payHash) from p.RLock() to its return, or to the point where
\* GetPaymentPreimage waits in stream.Recv() for the remote service.
LookupPreimage(n, payHash, ioErr, wErr) ==
    LET li == LookupInvoice(payHash, ioErr)
        w == LookupWitness(payHash, wErr)
        g == GetPaymentPreimage(li.invoice, 0, 0, clientNil, ConfiguredChain,
                                CHOOSE r \in RpcReplies(payHash) : TRUE, Nil)
    IN  /\ NextLookup(n)
        /\ IF li.err # Nil /\ ~ConsultsWitness(li.err)
           THEN Return(n, payHash, NoInvoice, li.err, NotFound, "dberr", FALSE, FALSE)
           ELSE IF ~Resolves(li.err)
           THEN IF w.err # Nil
                THEN Return(n, payHash, NoInvoice, li.err, NotFound,
                            IF w.err = "no witnesses" THEN "witmiss" ELSE "witerr",
                            FALSE, FALSE)
                ELSE Return(n, payHash, NoInvoice, li.err,
                            [preimage |-> w.witness, found |-> TRUE], "wit", FALSE, FALSE)
           ELSE IF CallsRemote(li.invoice, clientNil, ConfiguredChain)
           THEN /\ lk' = [lk EXCEPT ![n] = [@ EXCEPT !.pc = "recv", !.hash = payHash,
                                                     !.term = li.invoice,
                                                     !.prev = lastRet[payHash]]]
                /\ UNCHANGED <<lastRet, pollG>>
           ELSE Return(n, payHash, li.invoice, li.err, LookupResult(g),
                       IF g.permErr # Nil THEN "perm"
                       ELSE IF g.tempErr # Nil THEN "temp" ELSE "local",
                       StartsPoll(g), FALSE)
        /\ UNCHANGED <<invoices, wCache, envVars, closedTwice, beaconVars, pollCounter, polls,
                       stopG, addLog, placed>>

\* a LookupPreimage that stores the preimage it resolved in the witness cache
LookupRecvCachesWitness(n, reply, regErr) ==
    LET c == lk[n].term
        g == GetPaymentPreimage(c, 0, 0, clientNil, ConfiguredChain, reply, regErr)
    IN  /\ lk[n].pc = "recv"
        /\ invoices' = IF g.persist THEN AddInvoicePreimage(c.PaymentHash, g.preimage)
                       ELSE invoices
        /\ wCache' = IF g.permErr = Nil /\ g.tempErr = Nil
                     THEN wCache \cup {g.preimage} ELSE wCache
        /\ Return(n, lk[n].hash, c, Nil, LookupResult(g),
                  IF g.permErr # Nil THEN "extperm"
                  ELSE IF g.tempErr # Nil THEN "exttemp" ELSE "ext",
                  StartsPoll(g), g.persist)
        /\ UNCHANGED <<envVars, closedTwice, beaconVars, pollCounter, polls, stopG,
                       addLog, placed>>

\* The remote service answers a LookupPreimage call waiting in Recv; the rest
\* of GetPaymentPreimage and of LookupPreimage follows.
LookupRecv(n, reply, regErr) ==
    LET c == lk[n].term
        g == GetPaymentPreimage(c, 0, 0, clientNil, ConfiguredChain, reply, regErr)
    IN  /\ lk[n].pc = "recv"
        /\ invoices' = IF g.persist THEN AddInvoicePreimage(c.PaymentHash, g.preimage)
                       ELSE invoices
        /\ Return(n, lk[n].hash, c, Nil, LookupResult(g),
                  IF g.permErr # Nil THEN "extperm"
                  ELSE IF g.tempErr # Nil THEN "exttemp" ELSE "ext",
                  StartsPoll(g), g.persist)
        /\ UNCHANGED <<wCache, envVars, closedTwice, beaconVars, pollCounter, polls, stopG,
                       addLog, placed>>

(***************************************************************************)
(* pollExtpreimage: one goroutine per temporary error of LookupPreimage.   *)
(* It takes no lock for the poll registry or the poll counter.             *)
(***************************************************************************)
\* pollID := p.pollCounter
PollReadCounter(n) ==
    /\ pollG[n].pc = "start"
    /\ pollG' = [pollG EXCEPT ![n] = [@ EXCEPT !.pc = "reg", !.pollID = pollCounter]]
    /\ UNCHANGED <<invoices, wCache, envVars, closedTwice, beaconVars, pollCounter, polls, lk,
                   stopG, addLog, placed, lastRet>>

\* p.polls[pollID] = quit; p.pollCounter++
PollRegister(n) ==
    /\ pollG[n].pc = "reg"
    /\ polls' = [polls EXCEPT ![pollG[n].pollID] = n]
    /\ pollCounter' = pollCounter + 1
    /\ pollG' = [pollG EXCEPT ![n] = [@ EXCEPT !.pc = "wait"]]
    /\ UNCHANGED <<invoices, wCache, envVars, closedTwice, beaconVars, lk, stopG, addLog,
                   placed, lastRet>>

\* the ticks of all polls so far
Ticks == LET sum[k \in 0 .. MaxLookups] ==
                IF k = 0 THEN 0 ELSE sum[k - 1] + pollG[k].ticks
         IN  sum[MaxLookups]

\* a poll that returns on a temporary error instead of continuing
PollAfterStopsOnTemp(g) ==
    IF g.permErr # Nil \/ g.tempErr # Nil THEN "exit" ELSE "add"

\* a poll that keeps polling after a permanent error
PollAfterRetriesOnPerm(g) ==
    IF g.permErr # Nil \/ g.tempErr # Nil THEN "wait" ELSE "add"

\* where the loop goes after GetPaymentPreimage gave g: return on a
\* permanent error, continue on a temporary one, else AddPreimage and return
PollAfter(g) ==
    IF g.permErr # Nil THEN "exit" ELSE IF g.tempErr # Nil THEN "wait" ELSE "add"

Outcome(g) == IF g.permErr # Nil THEN "perm" ELSE IF g.tempErr # Nil THEN "temp" ELSE "ok"

\* case <-ticker.C: the call of GetPaymentPreimage, up to its return or to the
\* point where it waits in stream.Recv()
PollTick(n) ==
    LET c == pollG[n].term
        g == GetPaymentPreimage(c, 0, 0, clientNil, ConfiguredChain,
                                CHOOSE r \in RpcReplies(c.PaymentHash) : TRUE, Nil)
    IN  /\ pollG[n].pc = "wait"
        /\ Ticks < MaxTicks
        /\ pollG' = [pollG EXCEPT ![n] =
                       IF CallsRemote(c, clientNil, ConfiguredChain)
                       THEN [@ EXCEPT !.pc = "recv", !.ticks = @ + 1]
                       ELSE [@ EXCEPT !.pc = PollAfter(g), !.ticks = @ + 1,
                                      !.hist = Append(@, Outcome(g)),
                                      !.pre = g.preimage]]
        /\ UNCHANGED <<invoices, wCache, envVars, closedTwice, beaconVars, pollCounter, polls,
                       lk, stopG, addLog, placed, lastRet>>

\* The remote service answers a poll waiting in Recv.
PollRecv(n, reply, regErr) ==
    LET c == pollG[n].term
        g == GetPaymentPreimage(c, 0, 0, clientNil, ConfiguredChain, reply, regErr)
    IN  /\ pollG[n].pc = "recv"
        /\ invoices' = IF g.persist THEN AddInvoicePreimage(c.PaymentHash, g.preimage)
                       ELSE invoices
        /\ pollG' = [pollG EXCEPT ![n] = [@ EXCEPT !.pc = PollAfter(g),
                                                   !.hist = Append(@, Outcome(g)),
                                                   !.pre = g.preimage]]
        /\ lastRet' = IF g.persist THEN [h \in Hashes |-> NoRet] ELSE lastRet
        /\ lk' = IF g.persist THEN ForgetRets(lk) ELSE lk
        /\ UNCHANGED <<wCache, envVars, closedTwice, beaconVars, pollCounter, polls, stopG,
                       addLog, placed>>

\* p.AddPreimage(preimage[:]); return.  The error AddPreimage returns is dropped.
PollAdd(n, werr) ==
    /\ pollG[n].pc = "add"
    /\ CanLock
    /\ AddPreimageBy(n, pollG[n].pre, werr)
    /\ pollG' = [pollG EXCEPT ![n] = [@ EXCEPT !.pc = "exit",
                                               !.wrote = IF werr = Nil THEN @ + 1 ELSE @]]
    /\ lk' = IF werr = Nil THEN ForgetRets(lk) ELSE lk
    /\ UNCHANGED <<invoices, envVars, closedTwice, clientCounter, subscribers, updateChan,
                   quitClosed, pollCounter, polls, stopG, placed>>

\* the deferred delete(p.polls, pollID); close(quit)
PollExit(n) ==
    /\ pollG[n].pc = "exit"
    /\ polls' = [polls EXCEPT ![pollG[n].pollID] = NoPoll]
    /\ pollG' = [pollG EXCEPT ![n] = [@ EXCEPT !.pc = "done"]]
    /\ UNCHANGED <<invoices, wCache, envVars, closedTwice, beaconVars, pollCounter, lk, stopG,
                   addLog, placed, lastRet>>

(***************************************************************************)
(* Stop.  It takes no lock either.                                         *)
(***************************************************************************)
NextStop(t) ==
    /\ t <= limits.stops
    /\ stopG[t].pc = "idle"
    /\ \A u \in StopIds : u < t => stopG[u].pc # "idle"

\* Stop is called: the range over p.polls begins
StopCall(t) ==
    /\ NextStop(t)
    /\ stopG' = [stopG EXCEPT ![t] = [@ EXCEPT !.pc = "iter", !.snap = polls]]
    /\ UNCHANGED <<invoices, wCache, envVars, closedTwice, beaconVars, pollVars, lk, addLog,
                   placed, lastRet>>

\* the range produces the next entry of p.polls
StopNext(t, id) ==
    /\ stopG[t].pc = "iter"
    /\ polls[id] # NoPoll
    /\ id \notin stopG[t].visited
    /\ stopG' = [stopG EXCEPT ![t] = [@ EXCEPT !.pc = "send", !.target = polls[id],
                                               !.visited = @ \cup {id}]]
    /\ UNCHANGED <<invoices, wCache, envVars, closedTwice, beaconVars, pollVars, lk, addLog,
                   placed, lastRet>>

\* quit <- true meets the poll's case <-quit: the poll returns
StopSend(t) ==
    /\ stopG[t].pc = "send"
    /\ pollG[stopG[t].target].pc = "wait"
    /\ pollG' = [pollG EXCEPT ![stopG[t].target] = [@ EXCEPT !.pc = "exit",
                                                             !.sig = TRUE]]
    /\ stopG' = [stopG EXCEPT ![t] = [@ EXCEPT !.pc = "iter"]]
    /\ UNCHANGED <<invoices, wCache, envVars, closedTwice, beaconVars, pollCounter, polls, lk,
                   addLog, placed, lastRet>>

\* quit <- true on a channel the poll has closed: send on closed channel
StopPanic(t) ==
    /\ stopG[t].pc = "send"
    /\ pollG[stopG[t].target].pc = "done"
    /\ stopG' = [stopG EXCEPT ![t] = [@ EXCEPT !.pc = "panic"]]
    /\ UNCHANGED <<invoices, wCache, envVars, closedTwice, beaconVars, pollVars, lk, addLog,
                   placed, lastRet>>

\* p.polls = make(map[uint64](chan bool))
StopClearsRegistry == [id \in PollKeys |-> NoPoll]

\* The range is over: every entry that was there when it began and is still
\* there has been produced (an entry added meanwhile may be skipped).  Stop
\* replaces the registry and returns.
StopReturn(t) ==
    /\ stopG[t].pc = "iter"
    /\ \A id \in PollKeys :
        (stopG[t].snap[id] # NoPoll /\ polls[id] # NoPoll) => id \in stopG[t].visited
    /\ polls' = StopClearsRegistry
    /\ stopG' = [stopG EXCEPT ![t] = [@ EXCEPT !.pc = "done",
                                               !.left = StopClearsRegistry,
                                               !.subs = subscribers]]
    /\ UNCHANGED <<invoices, wCache, envVars, closedTwice, beaconVars, pollCounter, pollG, lk,
                   addLog, placed, lastRet>>

(***************************************************************************)
(* The specification.                                                      *)
(***************************************************************************)
\* LookupPreimage and the polls it starts
Lookups ==
    \/ \E n \in LookupIds, h \in Hashes, ioErr \in IoErrs, wErr \in IoErrs :
          LookupPreimage(n, h, ioErr, wErr)
    \/ \E n \in LookupIds, regErr \in IoErrs :
          \E reply \in RpcReplies(lk[n].hash) : LookupRecv(n, reply, regErr)
    \/ \E n \in LookupIds : PollReadCounter(n)
    \/ \E n \in LookupIds : PollRegister(n)
    \/ \E n \in LookupIds : PollTick(n)
    \/ \E n \in LookupIds, regErr \in IoErrs :
          \E reply \in RpcReplies(pollG[n].term.PaymentHash) : PollRecv(n, reply, regErr)
    \/ \E n \in LookupIds, werr \in StoreErrs : PollAdd(n, werr)
    \/ \E n \in LookupIds : PollExit(n)

\* Lookups, their polls, and callers that add preimages of their own.
Init ==
    /\ InitNode
    /\ limits = [subs |-> 0, adds |-> BeaconAdds, lookups |-> MaxLookups, stops |-> 0]

Next ==
    \/ Lookups
    \/ \E pre \in Preimages, werr \in StoreErrs : AddPreimage(pre, werr)

Spec == Init /\ [][Next]_vars

\* Lookups, their polls, and subscribers.
InitPoll ==
    /\ InitNode
    /\ limits = [subs |-> BeaconSubs, adds |-> 0, lookups |-> MaxLookups, stops |-> 0]

NextPoll ==
    \/ Lookups
    \/ SubscribeUpdates
    \/ \E s \in SubIds : CancelSubscription(s)
    \/ \E d \in sends : Notify(d)

PollSpec == InitPoll /\ [][NextPoll]_vars

\* Lookups, their polls, subscribers and Stop.
InitStop ==
    /\ InitNode
    /\ limits = [subs |-> BeaconSubs, adds |-> 0, lookups |-> MaxLookups,
                 stops |-> MaxStops]

NextStopping ==
    \/ Lookups
    \/ SubscribeUpdates
    \/ \E s \in SubIds : CancelSubscription(s)
    \/ \E d \in sends : Notify(d)
    \/ \E t \in StopIds : StopCall(t)
    \/ \E t \in StopIds, id \in PollKeys : StopNext(t, id)
    \/ \E t \in StopIds : StopSend(t)
    \/ \E t \in StopIds : StopPanic(t)
    \/ \E t \in StopIds : StopReturn(t)

StopSpec == InitStop /\ [][NextStopping]_vars

(***************************************************************************)
(* The subscription actions alone: SubscribeUpdates, cancel, AddPreimage   *)
(* by callers, the notification goroutines and the subscriptions' readers. *)
(* A run starts from a fresh beacon, or from one whose first subscriber    *)
(* has left UpdateChanCap values unread.                                   *)
(***************************************************************************)
InitSub ==
    /\ InitBeacon
    /\ invoices = [h \in Hashes |-> NoInvoice]
    /\ clientNil = FALSE
    /\ limits = [subs |-> MaxSubs, adds |-> MaxAdds, lookups |-> 0, stops |-> 0]

\* The beacon with one subscriber whose updateChan holds 10 unread values.
FullBeacon ==
    /\ wCache = {1}
    /\ clientCounter = 1
    /\ subscribers = {0}
    /\ updateChan = [s \in SubIds |-> IF s = 0 THEN [i \in 1 .. UpdateChanCap |-> 1]
                                      ELSE <<>>]
    /\ quitClosed = {}
    /\ closedTwice = {}
    /\ sends = {}
    /\ pollCounter = 0
    /\ polls = [id \in PollKeys |-> NoPoll]
    /\ pollG = [n \in LookupIds |-> IdlePoll]
    /\ lk = [n \in LookupIds |-> IdleLookup]
    /\ stopG = [t \in StopIds |-> IdleStop]
    /\ addLog = <<>>
    /\ placed = [x \in SubIds \X AddIds |-> <<>>]
    /\ lastRet = [h \in Hashes |-> NoRet]
    /\ cli = NoClient
    /\ calls = [k \in CallIds |-> IdleCall]

InitFull ==
    /\ FullBeacon
    /\ invoices = [h \in Hashes |-> NoInvoice]
    /\ clientNil = FALSE
    /\ limits = [subs |-> MaxSubs, adds |-> MaxAdds, lookups |-> 0, stops |-> 0]

NextSub ==
    \/ SubscribeUpdates
    \/ \E s \in SubIds : CancelSubscription(s)
    \/ \E pre \in Preimages, werr \in StoreErrs : AddPreimage(pre, werr)
    \/ \E d \in sends : Notify(d)
    \/ \E s \in SubIds : Receive(s)

\* A goroutine blocked in a channel send is served in turn once readers
\* keep reading, and a subscription's holder keeps reading its stream.
FairSub ==
    /\ \A s \in SubIds, a \in 1 .. MaxAdds :
          SF_vars(\E d \in sends : d.sub = s /\ d.add = a /\ Notify(d))
    /\ \A s \in SubIds : WF_vars(Receive(s))

SubSpec == (InitSub \/ InitFull) /\ [][NextSub]_vars /\ FairSub

\* A notification goroutine whose select has a ready case takes a step; the
\* holders of subscriptions need not read.
FairNotify ==
    \A s \in SubIds, a \in 1 .. MaxAdds :
        WF_vars(\E d \in sends : d.sub = s /\ d.add = a /\ Notify(d))

CancelSpec == (InitSub \/ InitFull) /\ [][NextSub]_vars /\ FairNotify

\* Subscribers that may call their cancel function a second time.
NextRecancel ==
    \/ NextSub
    \/ \E s \in SubIds : CancelAgain(s)

RecancelSpec == InitSub /\ [][NextRecancel]_vars

\* A subscriber with a full update stream that nobody reads, next to callers
\* of AddPreimage, SubscribeUpdates and LookupPreimage.
InitBusy ==
    /\ FullBeacon
    /\ invoices = [h \in Hashes |-> NoInvoice]
    /\ clientNil = FALSE
    /\ limits = [subs |-> MaxSubs, adds |-> MaxAdds, lookups |-> MaxLookups,
                 stops |-> 0]

NextBusy ==
    \/ SubscribeUpdates
    \/ \E s \in SubIds : CancelSubscription(s)
    \/ \E pre \in Preimages, werr \in StoreErrs : AddPreimage(pre, werr)
    \/ \E d \in sends : Notify(d)
    \/ \E n \in LookupIds, h \in Hashes, ioErr \in IoErrs, wErr \in IoErrs :
          LookupPreimage(n, h, ioErr, wErr)

BusySpec == InitBusy /\ [][NextBusy]_vars /\ FairNotify

(***************************************************************************)
(* The external preimage client: New, Retrieve with connect and retrieve,  *)
(* in its single-connection form and in its pooled form, and               *)
(* GetPaymentPreimage calls made on it.                                    *)
(***************************************************************************)
\* New rejects every chain name but bitcoin and litecoin
NewFails(ChainName) == ChainName # "bitcoin" /\ ChainName # "litecoin"

\* New(RPCImpl, RPCHost, ChainName): no connection is made
New(ChainName, pooled) ==
    /\ cli.state = "none"
    /\ cli' = IF NewFails(ChainName)
              THEN [cli EXCEPT !.state = "failed", !.named = ChainName]
              ELSE [cli EXCEPT !.state = "made", !.chain = ChainName,
                               !.named = ChainName, !.pooled = pooled]
    /\ UNCHANGED <<invoices, wCache, clientNil, limits, closedTwice, beaconVars, pollVars, lk,
                   stopG, addLog, placed, lastRet, calls>>

\* The chain configuration of a built client is changed under it, to a
\* name symbol does not know.
CorruptChain(name) ==
    /\ cli.state = "made"
    /\ name # cli.chain
    /\ NewFails(name)
    /\ cli' = [cli EXCEPT !.chain = name]
    /\ UNCHANGED <<invoices, wCache, clientNil, limits, closedTwice, beaconVars, pollVars, lk,
                   stopG, addLog, placed, lastRet, calls>>

\* the wire request with time lock and best height exchanged
WireRequestSwapsHeights(req, sym) ==
    [PaymentHash |-> req.PaymentHash, Amount |-> req.Amount, Symbol |-> sym,
     TimeLock |-> req.BestHeight, BestHeight |-> req.TimeLock]

\* the GetPreimageRequest Retrieve builds from the caller's request
WireRequest(req, sym) ==
    [PaymentHash |-> req.PaymentHash, Amount |-> req.Amount, Symbol |-> sym,
     TimeLock |-> req.TimeLock, BestHeight |-> req.BestHeight]

\* Retrieve of the pooled client: one error slot, no permanent errors
RetrievePooled(chain, req, reply) ==
    LET none == [preimage |-> ZeroPreimage, tempErr |-> Nil, permErr |-> Nil]
        r == retrieve(reply)
    IN  IF symbol(chain).err # Nil
        THEN [none EXCEPT !.tempErr = symbol(chain).err]
        ELSE IF r.err # Nil
        THEN [none EXCEPT !.tempErr = r.err]
        ELSE IF r.res.len # 32
        THEN [none EXCEPT !.tempErr = "Returned preimage was of wrong length"]
        ELSE IF Sha256(r.res.PaymentPreimage) # req.PaymentHash
        THEN [none EXCEPT !.tempErr = "Returned preimage did not match provided hash"]
        ELSE [none EXCEPT !.preimage = r.res.PaymentPreimage]

\* what the server can send on one stream: messages, or a transport error
\* that ends it; the end of the stream is io.EOF
StreamEvents(hash) == {r \in RpcReplies(hash) : r.kind \in {"recvErr", "msg"}}

Streams(hash) ==
    {st \in UNION {[1 .. n -> StreamEvents(hash)] : n \in 0 .. MaxStream} :
        \A i \in 1 .. Len(st) :
            /\ i < Len(st) => st[i].kind = "msg"
            /\ i > 1 => /\ st[i].kind = "msg"
                        /\ st[i].PaymentPreimage \in {ZeroPreimage, 1}
                        /\ st[i].len # 31}

EofReply == [NoReply EXCEPT !.kind = "eof"]

\* retrieve reading the stream to its end
StreamReplyLast(stream) == IF stream = <<>> THEN EofReply ELSE stream[Len(stream)]

\* retrieve's loop: the first Recv decides
StreamReply(stream) == IF stream = <<>> THEN EofReply ELSE stream[1]

\* the calls between their first step and their return
InFlight == {k \in CallIds : calls[k].pc \notin {"idle", "done"}}

NextCall(k) ==
    /\ calls[k].pc = "idle"
    /\ \A j \in CallIds : j < k => calls[j].pc # "idle"

\* Call c returns, Retrieve having got reply (if it got that far).
Finish(c, reply, regErr) ==
    LET res == IF cli.pooled THEN RetrievePooled(c.chain, c.req, reply)
               ELSE Retrieve(c.chain, c.req, reply)
        writes == c.glue /\ c.remote /\ res.tempErr = Nil /\ res.permErr = Nil
    IN  [c EXCEPT !.pc = "done", !.reply = reply, !.res = res,
                  !.regErr = IF writes THEN regErr ELSE Nil,
                  !.g = IF c.glue
                        THEN GetPaymentPreimage(c.term, c.req.TimeLock, c.req.BestHeight,
                                                c.noClient, c.chain, reply, regErr)
                        ELSE @]

\* Retrieve(req) up to its call of retrieve: the symbol, the wire request
EnterRetrieve(k, c) ==
    /\ calls' = [calls EXCEPT ![k] =
                    IF symbol(cli.chain).err # Nil
                    THEN Finish([c EXCEPT !.chain = cli.chain, !.remote = TRUE],
                                NoReply, Nil)
                    ELSE [c EXCEPT !.pc = "connect", !.chain = cli.chain,
                                   !.remote = TRUE,
                                   !.rpcReq = WireRequest(c.req, symbol(cli.chain).sym)]]
    /\ cli' = [cli EXCEPT !.overlap = @ \/ InFlight # {}]

\* the requests callers make
Requests == {[PaymentHash |-> h, Amount |-> 1, TimeLock |-> 2, BestHeight |-> 3] :
                h \in Hashes}

\* a caller calls Retrieve(req)
RetrieveCall(k, req) ==
    /\ NextCall(k)
    /\ cli.state = "made"
    /\ EnterRetrieve(k, [IdleCall EXCEPT !.req = req])
    /\ UNCHANGED <<invoices, wCache, clientNil, limits, closedTwice, beaconVars, pollVars, lk,
                   stopG, addLog, placed, lastRet>>

\* the contract terms GetPaymentPreimage is called on
GlueTerms ==
    {LocalTerm(1), [LocalTerm(1) EXCEPT !.PaymentPreimage = ZeroPreimage]}
    \cup {ExternalTerm(h) : h \in Hashes}

\* GetPaymentPreimage going to the client for every external term
ReachesRetrieveIgnoringLocal(c, noClient) == c.ExternalPreimage /\ ~noClient

\* GetPaymentPreimage gets as far as client.Retrieve
ReachesRetrieve(c, noClient) ==
    c.PaymentPreimage = ZeroPreimage /\ c.ExternalPreimage /\ ~noClient

\* a caller calls term.GetPaymentPreimage(timeLock, currentHeight, client, registry)
GlueCall(k, term, timeLock, currentHeight, noClient) ==
    LET c == [IdleCall EXCEPT !.glue = TRUE, !.term = term, !.noClient = noClient,
                              !.timeLock = timeLock, !.currentHeight = currentHeight,
                              !.req = PreimageRequest(term, timeLock, currentHeight)]
    IN  /\ NextCall(k)
        /\ noClient \/ (cli.state = "made" /\ ~cli.pooled)
        /\ IF ReachesRetrieve(term, noClient)
           THEN EnterRetrieve(k, c)
           ELSE /\ calls' = [calls EXCEPT ![k] =
                                Finish([c EXCEPT !.chain = cli.chain], NoReply, Nil)]
                /\ UNCHANGED cli
        /\ UNCHANGED <<invoices, wCache, clientNil, limits, closedTwice, beaconVars, pollVars, lk,
                       stopG, addLog, placed, lastRet>>

\* connect of the single-connection client: if c.conn == nil
ConnectCheck(k) ==
    /\ calls[k].pc = "connect"
    /\ ~cli.pooled
    /\ calls' = [calls EXCEPT ![k] =
                    IF cli.conn = 0 THEN [@ EXCEPT !.pc = "dial"]
                    ELSE [@ EXCEPT !.pc = "open", !.reused = TRUE,
                                   !.sawConn = cli.conn]]
    /\ UNCHANGED <<invoices, wCache, clientNil, limits, closedTwice, beaconVars, pollVars, lk,
                   stopG, addLog, placed, lastRet, cli>>

\* the connections dialled so far
Dialled == Cardinality({i \in 1 .. Len(cli.dialLog) : cli.dialLog[i].ok})

\* connect storing the connection a failed Dial returned
ConnAfterFailedDialStored(conn) == 1

\* what connect leaves in c.conn after a Dial that failed
ConnAfterFailedDial(conn) == conn

\* connect storing a dialled connection only when none is stored
DialKeepsFirst(k, ok) ==
    /\ calls[k].pc = "dial"
    /\ cli' = [cli EXCEPT !.dialLog = Append(@, [host |-> cli.host, ok |-> ok, by |-> k]),
                          !.conn = IF ok /\ @ = 0 THEN Dialled + 1
                                   ELSE ConnAfterFailedDial(@)]
    /\ calls' = [calls EXCEPT ![k] =
                    IF ok THEN [@ EXCEPT !.pc = "open", !.dialed = TRUE,
                                         !.sawConn = Dialled + 1]
                    ELSE Finish([@ EXCEPT !.dialed = TRUE],
                                [NoReply EXCEPT !.kind = "dialErr"], Nil)]
    /\ UNCHANGED <<invoices, wCache, clientNil, limits, closedTwice, beaconVars, pollVars, lk,
                   stopG, addLog, placed, lastRet>>

\* c.rpc.Dial(c.host, ...): on success c.conn = conn
Dial(k, ok) ==
    /\ calls[k].pc = "dial"
    /\ cli' = [cli EXCEPT !.dialLog = Append(@, [host |-> cli.host, ok |-> ok, by |-> k]),
                          !.conn = IF ok THEN Dialled + 1 ELSE ConnAfterFailedDial(@)]
    /\ calls' = [calls EXCEPT ![k] =
                    IF ok THEN [@ EXCEPT !.pc = "open", !.dialed = TRUE,
                                         !.sawConn = Dialled + 1]
                    ELSE Finish([@ EXCEPT !.dialed = TRUE],
                                [NoReply EXCEPT !.kind = "dialErr"], Nil)]
    /\ UNCHANGED <<invoices, wCache, clientNil, limits, closedTwice, beaconVars, pollVars, lk,
                   stopG, addLog, placed, lastRet>>

\* connect of the pooled client: c.pool.Get(ctx) waits while every
\* connection is checked out
PoolGet(k, ok) ==
    /\ calls[k].pc = "connect"
    /\ cli.pooled
    /\ ok => cli.out < PoolCap
    /\ cli' = [cli EXCEPT !.out = IF ok THEN @ + 1 ELSE @]
    /\ calls' = [calls EXCEPT ![k] =
                    IF ok THEN [@ EXCEPT !.pc = "open", !.got = TRUE]
                    ELSE Finish(@, [NoReply EXCEPT !.kind = "dialErr"], Nil)]
    /\ UNCHANGED <<invoices, wCache, clientNil, limits, closedTwice, beaconVars, pollVars, lk,
                   stopG, addLog, placed, lastRet>>

\* client.GetPreimage(ctx, req): the request goes out and the stream opens
Open(k, ok, stream) ==
    /\ calls[k].pc = "open"
    /\ cli' = [cli EXCEPT !.wire = Append(@, calls[k].rpcReq)]
    /\ calls' = [calls EXCEPT ![k] =
                    IF ok THEN [@ EXCEPT !.pc = "recv", !.sent = TRUE, !.stream = stream]
                    ELSE Finish([@ EXCEPT !.sent = TRUE],
                                [NoReply EXCEPT !.kind = "openErr"], Nil)]
    /\ UNCHANGED <<invoices, wCache, clientNil, limits, closedTwice, beaconVars, pollVars, lk,
                   stopG, addLog, placed, lastRet>>

\* stream.Recv() returns; retrieve, Retrieve and, for a GetPaymentPreimage
\* call, the write to the registry follow
Recv(k, regErr) ==
    LET done == Finish([calls[k] EXCEPT !.reads = @ + 1],
                       StreamReply(calls[k].stream), regErr)
    IN  /\ calls[k].pc = "recv"
        /\ calls' = [calls EXCEPT ![k] = done]
        /\ invoices' = IF done.glue /\ done.g.persist
                       THEN AddInvoicePreimage(done.term.PaymentHash, done.g.preimage)
                       ELSE invoices
        /\ UNCHANGED <<wCache, clientNil, limits, closedTwice, beaconVars, pollVars, lk, stopG,
                       addLog, placed, lastRet, cli>>

\* the registry as the calls find it
InitRegistry == [h \in Hashes |-> ExternalTerm(h)]

\* The client alone, with the callers of Retrieve and GetPaymentPreimage.
InitClient ==
    /\ InitBeacon
    /\ invoices = InitRegistry
    /\ clientNil = FALSE
    /\ limits = [subs |-> 0, adds |-> 0, lookups |-> 0, stops |-> 0]

NextClient ==
    \/ \E name \in ChainNames, pooled \in BOOLEAN : New(name, pooled)
    \/ \E name \in ChainNames : CorruptChain(name)
    \/ \E k \in CallIds, req \in Requests : RetrieveCall(k, req)
    \/ \E k \in CallIds, term \in GlueTerms, noClient \in BOOLEAN :
          GlueCall(k, term, 2, 3, noClient)
    \/ \E k \in CallIds : ConnectCheck(k)
    \/ \E k \in CallIds, ok \in BOOLEAN : Dial(k, ok)
    \/ \E k \in CallIds, ok \in BOOLEAN : PoolGet(k, ok)
    \/ \E k \in CallIds, ok \in BOOLEAN :
          \E stream \in Streams(calls[k].req.PaymentHash) : Open(k, ok, stream)
    \/ \E k \in CallIds, regErr \in IoErrs : Recv(k, regErr)

ClientSpec == InitClient /\ [][NextClient]_vars

(***************************************************************************)
(* GetPaymentHash and GetPaymentPreimage on contract terms of every shape, *)
(* with the client behind them.                                            *)
(***************************************************************************)
\* invoice values in millisatoshis
Values == {0, 999, 1000, 1999, 2000}

\* the contract terms the two functions are called on
Terms ==
    [found : {TRUE}, ExternalPreimage : BOOLEAN, PaymentHash : {ZeroHash} \cup Hashes,
     PaymentPreimage : {ZeroPreimage} \cup Preimages, Value : Values]

\* the timeLock and currentHeight arguments
TimeLocks == {2, 40}
Heights == {3}

\* a caller calls term.GetPaymentHash()
HashCall(k, term) ==
    /\ NextCall(k)
    /\ calls' = [calls EXCEPT ![k] =
                    [IdleCall EXCEPT !.pc = "done", !.term = term, !.hashed = TRUE,
                                     !.hash = GetPaymentHash(term)]]
    /\ UNCHANGED <<invoices, wCache, clientNil, limits, closedTwice, beaconVars, pollVars, lk,
                   stopG, addLog, placed, lastRet, cli>>

\* one call at a time: the two functions run in their caller's goroutine
TermCallIds == {1}

NextTerm ==
    \/ \E name \in ChainNames : New(name, FALSE)
    \/ \E k \in TermCallIds, term \in Terms : HashCall(k, term)
    \/ \E k \in TermCallIds, term \in Terms, timeLock \in TimeLocks,
          currentHeight \in Heights, noClient \in BOOLEAN :
          GlueCall(k, term, timeLock, currentHeight, noClient)
    \/ \E k \in TermCallIds : ConnectCheck(k)
    \/ \E k \in TermCallIds, ok \in BOOLEAN : Dial(k, ok)
    \/ \E k \in TermCallIds, ok \in BOOLEAN :
          \E stream \in Streams(calls[k].req.PaymentHash) : Open(k, ok, stream)
    \/ \E k \in TermCallIds, regErr \in IoErrs : Recv(k, regErr)

TermSpec == InitClient /\ [][NextTerm]_vars

(***************************************************************************)
(* Properties.                                                             *)
(***************************************************************************)
\* the AddPreimage calls made so far
Adds == 1 .. Len(addLog)

\* C1: an AddPreimage call whose AddWitness failed returned that error,
\* started no notification goroutine, and no subscriber's updateChan ever got
\* a value from it.
C1_FailedAddHasNoFanOut ==
    \A a \in Adds :
        addLog[a].werr # Nil =>
            /\ addLog[a].ret = addLog[a].werr
            /\ \A d \in sends : d.add # a
            /\ \A s \in SubIds : placed[<<s, a>>] = <<>>

\* C1 witness: AddWitness failed while a subscriber was registered, and
\* another add has delivered to it.
C1_Witness ==
    \E a \in Adds, b \in Adds :
        /\ addLog[a].werr # Nil
        /\ addLog[a].subs # {}
        /\ \E s \in addLog[a].subs : placed[<<s, b>>] # <<>>

\* C2: a preimage LookupPreimage(H) returns with found = true hashes to H,
\* and a witness a poll writes through AddPreimage hashes to the payment hash
\* of the invoice the poll was started for.
C2_AcceptedPreimagesMatchHash ==
    /\ \A n \in LookupIds :
          (lk[n].pc = "done" /\ lk[n].found) => Sha256(lk[n].preimage) = lk[n].hash
    /\ \A a \in Adds :
          (addLog[a].by # 0 /\ addLog[a].werr = Nil) =>
              /\ Sha256(addLog[a].pre) = lk[addLog[a].by].hash
              /\ Sha256(addLog[a].pre) = pollG[addLog[a].by].term.PaymentHash

\* C2 witness: a poll has written the preimage the remote service gave it,
\* and a lookup has returned a preimage.
C2_Witness ==
    /\ \E a \in Adds : addLog[a].by # 0 /\ addLog[a].werr = Nil
    /\ \E n \in LookupIds : lk[n].pc = "done" /\ lk[n].found

\* a successful add a that found subscriber s registered and not cancelled
Owes(s, a) == a \in Adds /\ addLog[a].werr = Nil /\ s \in addLog[a].subs

\* C3: a subscriber registered and not cancelled when AddPreimage(P) is
\* called gets P on its updateChan once: never another value and never twice
\* for that add, and eventually, unless it cancels.
C3_SubscriberGetsPreimageOnce ==
    /\ [](\A s \in SubIds, a \in Adds :
            /\ Len(placed[<<s, a>>]) <= 1
            /\ \A i \in 1 .. Len(placed[<<s, a>>]) : placed[<<s, a>>][i] = addLog[a].pre)
    /\ \A s \in SubIds, a \in 1 .. MaxAdds :
          Owes(s, a) ~> (Len(placed[<<s, a>>]) = 1 \/ s \in quitClosed)

\* C3 witness: two subscribers that never cancelled each got the preimage of
\* a successful add.
C3_Witness ==
    \E a \in Adds :
        /\ addLog[a].subs = SubIds
        /\ quitClosed = {}
        /\ \A s \in SubIds : placed[<<s, a>>] = <<addLog[a].pre>>

\* C4: a subscription cancelled before AddPreimage(P) is called never gets a
\* value of that call on its updateChan.
C4_CancelledGetsNothing ==
    \A a \in Adds : \A s \in addLog[a].cancelled : placed[<<s, a>>] = <<>>

\* C4 witness: an add that succeeded after one subscriber cancelled has
\* delivered to another one.
C4_Witness ==
    \E a \in Adds :
        /\ addLog[a].werr = Nil
        /\ addLog[a].cancelled # {}
        /\ \E s \in addLog[a].subs : placed[<<s, a>>] # <<>>

\* C5: a LookupPreimage call starts a poll exactly when it found an invoice
\* and GetPaymentPreimage returned a temporary error, and then it returns
\* (nil, false).
C5_PollExactlyOnTemporaryError ==
    \A n \in LookupIds :
        /\ lk[n].pc # "done" => pollG[n].pc = "none"
        /\ lk[n].pc = "done" =>
              /\ pollG[n].pc # "none" <=> lk[n].via \in {"temp", "exttemp"}
              /\ lk[n].via \in {"temp", "exttemp"} =>
                    /\ lk[n].invErr = Nil
                    /\ lk[n].term.found
                    /\ lk[n].preimage = NilBytes
                    /\ ~lk[n].found

\* C5 witness: one call met a temporary error of the remote service and
\* started a poll, another met a permanent one and started none.
C5_Witness ==
    \E n \in LookupIds, m \in LookupIds :
        /\ lk[n].pc = "done" /\ lk[n].via = "exttemp" /\ pollG[n].pc # "none"
        /\ lk[m].pc = "done" /\ lk[m].via = "extperm" /\ pollG[m].pc = "none"

\* C6: a LookupPreimage call never waits for the remote preimage service, so
\* no call is ever in stream.Recv() (where it would hold the read lock).
C6_LookupNeverWaitsForRemote ==
    \A n \in LookupIds : lk[n].pc # "recv"

\* the ways a LookupPreimage call returns after consulting the witness cache
ViaWitness == {"wit", "witmiss", "witerr"}

\* C7: LookupPreimage consults the witness cache exactly when LookupInvoice
\* returned ErrInvoiceNotFound; a hit is returned with found = true and an
\* error gives (nil, false).  Any other LookupInvoice error gives (nil, false)
\* at once: no witness lookup, no resolution, no poll.
C7_WitnessOnlyOnInvoiceNotFound ==
    \A n \in LookupIds :
        lk[n].pc = "done" =>
            /\ lk[n].via \in ViaWitness <=> lk[n].invErr = "ErrInvoiceNotFound"
            /\ lk[n].via = "wit" =>
                  /\ lk[n].found
                  /\ lk[n].preimage \in wCache
                  /\ Sha256(lk[n].preimage) = lk[n].hash
            /\ lk[n].via \in {"witmiss", "witerr"} =>
                  lk[n].preimage = NilBytes /\ ~lk[n].found
            /\ lk[n].invErr \notin {Nil, "ErrInvoiceNotFound"} =>
                  /\ lk[n].via = "dberr"
                  /\ lk[n].preimage = NilBytes /\ ~lk[n].found
                  /\ pollG[n].pc = "none"

\* C7 witness: one call hit the witness cache, one met a witness cache
\* error, or one met an Invoice Store error other than not-found.
C7_Witness ==
    /\ \E n \in LookupIds : lk[n].pc = "done" /\ lk[n].via = "wit"
    /\ \E n \in LookupIds : lk[n].pc = "done" /\ lk[n].via \in {"witerr", "dberr"}

\* a call that returned after the previous call for its hash did, with no
\* store written in between
Repeated(n) == lk[n].pc = "done" /\ lk[n].prev # NoRet

SamePair(n) == lk[n].prev.preimage = lk[n].preimage /\ lk[n].prev.found = lk[n].found

ViaFailure == {"dberr", "witerr", "exttemp", "extperm"}

PollAddsOf(n) == {a \in Adds : addLog[a].by = n}

\* the notification of add a has reached subscriber s, is on its way, or s
\* has cancelled
Served(s, a) ==
    \/ placed[<<s, a>>] = <<addLog[a].pre>>
    \/ \E d \in sends : d.sub = s /\ d.add = a /\ d.pre = addLog[a].pre
    \/ s \in quitClosed

C10_StopEndsRegisteredPolls ==
    \A t \in StopIds :
        stopG[t].pc = "done" =>
            /\ \A id \in PollKeys :
                  stopG[t].snap[id] # NoPoll =>
                      pollG[stopG[t].snap[id]].pc \in {"exit", "done"}
            /\ \A id \in PollKeys : stopG[t].left[id] = NoPoll

\* C11: Stop never waits for a poll and always returns normally: a Stop
\* that is sending on a poll's quit channel finds the poll ready to receive,
\* and no Stop ends in a panic.
C11_StopNeverWaitsNorPanics ==
    \A t \in StopIds :
        /\ stopG[t].pc # "panic"
        /\ stopG[t].pc = "send" => pollG[stopG[t].target].pc = "wait"

\* C12: when Stop returns no subscriber is left in p.subscribers.
C12_NoSubscriberAfterStop ==
    \A t \in StopIds : stopG[t].pc = "done" => stopG[t].subs = {}

\* the calls that have returned from Retrieve
Returned == {k \in CallIds : calls[k].pc = "done" /\ calls[k].remote}

\* Retrieve of call k returned a preimage and no error
Succeeded(k) == calls[k].res.tempErr = Nil /\ calls[k].res.permErr = Nil

\* the message retrieve handed to Retrieve in call k carries no permanent error
PlainMessage(k) == calls[k].reply.kind = "msg" /\ calls[k].reply.PermanentError = ""

\* C13: when Retrieve returns with both error slots empty the preimage is
\* the 32-byte value the server sent and its SHA256 is the requested hash; a
\* response whose preimage does not hash to the requested hash gives a
\* temporary error and no permanent one.
C13_RetrievedPreimageMatchesHash ==
    \A k \in Returned :
        /\ Succeeded(k) =>
              /\ PlainMessage(k)
              /\ calls[k].reply.len = 32
              /\ calls[k].res.preimage = calls[k].reply.PaymentPreimage
              /\ Sha256(calls[k].res.preimage) = calls[k].req.PaymentHash
        /\ (PlainMessage(k)
            /\ Sha256(calls[k].reply.PaymentPreimage) # calls[k].req.PaymentHash) =>
              /\ calls[k].res.tempErr # Nil
              /\ calls[k].res.permErr = Nil
              /\ calls[k].res.preimage = ZeroPreimage

C13_Witness ==
    /\ \E k \in Returned : Succeeded(k) /\ calls[k].res.preimage = 1
    /\ \E k \in Returned :
          /\ PlainMessage(k)
          /\ calls[k].reply.len = 32
          /\ Sha256(calls[k].reply.PaymentPreimage) # calls[k].req.PaymentHash
          /\ calls[k].res.tempErr # Nil

\* the GetPaymentPreimage calls that have returned
GlueReturned == {k \in CallIds : calls[k].pc = "done" /\ calls[k].glue}

\* a (preimage, temporary error, permanent error) result with at most one
\* of the three set
OneOutcome(o) ==
    /\ ~(o.tempErr # Nil /\ o.permErr # Nil)
    /\ (o.tempErr # Nil \/ o.permErr # Nil) => o.preimage = ZeroPreimage
    /\ o.preimage # ZeroPreimage => o.tempErr = Nil /\ o.permErr = Nil

\* C14: every call of Retrieve and of GetPaymentPreimage returns a preimage,
\* a temporary error or a permanent error and never two of them: the error
\* slots are never both set, the preimage is zero when an error is set, and
\* a preimage comes only with both errors nil.
C14_ExactlyOneOutcome ==
    /\ \A k \in Returned : OneOutcome(calls[k].res)
    /\ \A k \in GlueReturned : OneOutcome(calls[k].g)

C14_Witness ==
    /\ \E k \in GlueReturned :
          calls[k].remote /\ calls[k].g.preimage # ZeroPreimage /\ calls[k].g.persist
    /\ \E k \in Returned :
          /\ calls[k].res.tempErr # Nil
          /\ PlainMessage(k) /\ calls[k].reply.len = 32

\* the server's answer in call k was a message with permanent_error set
GotPermanentError(k) ==
    calls[k].reply.kind = "msg" /\ calls[k].reply.PermanentError # ""

\* C15: Retrieve returns a permanent error exactly when a response with a
\* non-empty permanent_error was received; then the temporary error is nil,
\* the preimage zero and the error carries the server's text.  Every other
\* failure, a preimage of a length other than 32 included, is a temporary
\* error with no permanent error.
C15_PermanentOnlyFromServer ==
    \A k \in Returned :
        ~cli.pooled =>
            /\ calls[k].res.permErr # Nil <=> GotPermanentError(k)
            /\ calls[k].res.permErr # Nil =>
                  /\ calls[k].res.tempErr = Nil
                  /\ calls[k].res.preimage = ZeroPreimage
                  /\ calls[k].res.permErr = calls[k].reply.PermanentError
            /\ (~Succeeded(k) /\ ~GotPermanentError(k)) =>
                  calls[k].res.tempErr # Nil /\ calls[k].res.permErr = Nil
            /\ (PlainMessage(k) /\ calls[k].reply.len # 32) =>
                  calls[k].res.tempErr # Nil /\ calls[k].res.permErr = Nil

C15_Witness ==
    /\ \E k \in Returned :
          ~cli.pooled /\ GotPermanentError(k) /\ calls[k].res.permErr = "boom"
    /\ \E k \in Returned :
          /\ ~cli.pooled /\ PlainMessage(k) /\ calls[k].reply.len = 31
          /\ calls[k].res.tempErr # Nil

\* call k got as far as reading from its stream
ReadStream(k) == calls[k].pc = "done" /\ calls[k].sent /\ calls[k].reply.kind # "openErr"

\* C16: Retrieve reduces the stream to one response: the first thing received
\* decides the result and nothing more is read; a stream that ends before any
\* message gives the temporary error "server closed stream early", and a
\* transport error on receive comes back unchanged as the temporary error.
C16_FirstMessageDecides ==
    \A k \in CallIds :
        /\ calls[k].reads <= 1
        /\ ReadStream(k) =>
              /\ calls[k].reads = 1
              /\ calls[k].stream # <<>> =>
                    /\ calls[k].reply = calls[k].stream[1]
                    /\ ~cli.pooled =>
                          calls[k].res = Retrieve(calls[k].chain, calls[k].req,
                                                  calls[k].stream[1])
              /\ calls[k].stream = <<>> =>
                    /\ calls[k].res.tempErr = "server closed stream early"
                    /\ calls[k].res.permErr = Nil
              /\ (calls[k].stream # <<>> /\ calls[k].stream[1].kind = "recvErr") =>
                    /\ calls[k].res.tempErr = "transport error"
                    /\ calls[k].res.permErr = Nil

C16_Witness ==
    /\ \E k \in CallIds :
          /\ ReadStream(k) /\ Len(calls[k].stream) = 2
          /\ calls[k].stream[2] # calls[k].stream[1]
          /\ Retrieve(calls[k].chain, calls[k].req, calls[k].stream[2]) # calls[k].res
    /\ \E k \in CallIds :
          ReadStream(k) /\ calls[k].stream = <<>>

\* the chain names a client can be built for
SupportedChains == {"bitcoin", "litecoin"}

\* call k did nothing towards the server
NothingSent(k) ==
    /\ ~calls[k].dialed /\ ~calls[k].reused /\ ~calls[k].got
    /\ ~calls[k].sent /\ calls[k].reads = 0
    /\ \A i \in 1 .. Len(cli.dialLog) : cli.dialLog[i].by # k
    /\ calls[k].rpcReq = NoWire

\* C17: New builds a client only for bitcoin and litecoin and fails for every
\* other name; when the chain name is unsupported as Retrieve runs, Retrieve
\* returns a temporary error and no permanent one, before it connects or
\* sends anything.
C17_UnsupportedChainIsTemporary ==
    /\ cli.state = "made" => cli.named \in SupportedChains
    /\ cli.state = "failed" => cli.named \notin SupportedChains
    /\ \A k \in Returned :
          calls[k].chain \notin SupportedChains =>
              /\ calls[k].res.tempErr # Nil
              /\ calls[k].res.permErr = Nil
              /\ calls[k].res.preimage = ZeroPreimage
              /\ NothingSent(k)
    /\ \A k \in CallIds :
          (calls[k].pc \notin {"idle", "done"}) => calls[k].chain \in SupportedChains

C17_Witness ==
    /\ cli.state = "made"
    /\ \E k \in Returned : calls[k].chain = "dogecoin" /\ calls[k].res.tempErr # Nil
    /\ \E k \in Returned : calls[k].chain \in SupportedChains /\ calls[k].sent

\* C18: the request Retrieve puts on the wire carries exactly the caller's
\* payment hash, amount, time lock and best height, with symbol BTC when the
\* configured chain is bitcoin and LTC when it is litecoin.
C18_WireRequestCarriesCallersFields ==
    /\ \A k \in CallIds :
          calls[k].sent =>
              /\ calls[k].rpcReq.PaymentHash = calls[k].req.PaymentHash
              /\ calls[k].rpcReq.Amount = calls[k].req.Amount
              /\ calls[k].rpcReq.TimeLock = calls[k].req.TimeLock
              /\ calls[k].rpcReq.BestHeight = calls[k].req.BestHeight
              /\ calls[k].chain = "bitcoin" => calls[k].rpcReq.Symbol = "BTC"
              /\ calls[k].chain = "litecoin" => calls[k].rpcReq.Symbol = "LTC"
              /\ \E i \in 1 .. Len(cli.wire) : cli.wire[i] = calls[k].rpcReq
    /\ Len(cli.wire) = Cardinality({k \in CallIds : calls[k].sent})

C18_Witness ==
    /\ \E k \in CallIds : calls[k].sent /\ calls[k].chain = "litecoin"
    /\ Len(cli.wire) = 2
    /\ cli.wire[1].TimeLock # cli.wire[1].BestHeight
    /\ cli.wire[1].Amount # cli.wire[1].TimeLock

\* call k has been through connect of the single-connection client
Connected(k) == calls[k].dialed \/ calls[k].reused

\* the successful dials made by calls before call k
DialsBefore(k) ==
    {i \in 1 .. Len(cli.dialLog) : cli.dialLog[i].ok /\ cli.dialLog[i].by < k}

\* C19: the single-connection client dials lazily and then reuses: New dials
\* nothing; the first Retrieve dials the configured host; over Retrieve calls
\* that do not overlap a dial succeeds at most once, and a failed dial leaves
\* no connection stored, so that the next call dials again.
C19_DialsLazilyAndReuses ==
    (~cli.pooled /\ ~cli.overlap) =>
        /\ (\A k \in CallIds : calls[k].pc = "idle") =>
              cli.dialLog = <<>> /\ cli.conn = 0
        /\ \A i \in 1 .. Len(cli.dialLog) : cli.dialLog[i].host = RPCHost
        /\ Dialled <= 1
        /\ cli.conn = 0 <=> Dialled = 0
        /\ \A k \in CallIds :
              Connected(k) =>
                  /\ DialsBefore(k) = {} => calls[k].dialed /\ ~calls[k].reused
                  /\ DialsBefore(k) # {} => calls[k].reused /\ ~calls[k].dialed

C19_Witness ==
    /\ ~cli.pooled /\ ~cli.overlap
    /\ Len(cli.dialLog) = 2
    /\ ~cli.dialLog[1].ok /\ cli.dialLog[1].by = 1
    /\ cli.dialLog[2].ok /\ cli.dialLog[2].by = 2
    /\ calls[2].pc = "done"
    /\ cli.conn # 0

\* C20: the pooled client checks a connection out for each Retrieve and gives
\* it back when the call ends: never more than PoolCap are checked out, and
\* when every Retrieve call has returned none is.
C20_PoolReleasesPerCall ==
    cli.pooled =>
        /\ cli.out <= PoolCap
        /\ InFlight = {} => cli.out = 0

\* the GetPaymentHash calls that have returned
Hashed == {k \in CallIds : calls[k].pc = "done" /\ calls[k].hashed}

\* C21: GetPaymentHash returns the stored hash of an external term whose hash
\* is non-zero, the SHA-256 digest of the stored preimage of a term that is
\* not external and whose preimage is non-zero, and in the two other cases
\* an error together with the zero hash.
C21_PaymentHashByKind ==
    \A k \in Hashed :
        LET t == calls[k].term
            r == calls[k].hash
        IN  /\ (t.ExternalPreimage /\ t.PaymentHash # ZeroHash) =>
                  r.hash = t.PaymentHash /\ r.err = Nil
            /\ (~t.ExternalPreimage /\ t.PaymentPreimage # ZeroPreimage) =>
                  r.hash = Sha256(t.PaymentPreimage) /\ r.err = Nil
            /\ (t.ExternalPreimage /\ t.PaymentHash = ZeroHash) =>
                  r.hash = ZeroHash /\ r.err # Nil
            /\ (~t.ExternalPreimage /\ t.PaymentPreimage = ZeroPreimage) =>
                  r.hash = ZeroHash /\ r.err # Nil

C21_Witness ==
    \E k \in Hashed :
        /\ calls[k].term.ExternalPreimage
        /\ calls[k].term.PaymentHash # ZeroHash
        /\ calls[k].term.PaymentPreimage # ZeroPreimage
        /\ Sha256(calls[k].term.PaymentPreimage) # calls[k].term.PaymentHash
        /\ calls[k].hash.hash = calls[k].term.PaymentHash

\* C22: GetPaymentPreimage returns the locally stored preimage whenever it is
\* non-zero, external term or not, and then neither calls the external
\* client nor writes to the invoice registry.
C22_LocalPreimageFirst ==
    \A k \in GlueReturned :
        calls[k].term.PaymentPreimage # ZeroPreimage =>
            /\ calls[k].g.preimage = calls[k].term.PaymentPreimage
            /\ calls[k].g.tempErr = Nil /\ calls[k].g.permErr = Nil
            /\ ~calls[k].remote /\ ~calls[k].g.remote
            /\ NothingSent(k)
            /\ cli.wire = <<>> /\ cli.dialLog = <<>>
            /\ ~calls[k].g.persist
            /\ invoices = InitRegistry

C22_Witness ==
    \E k \in GlueReturned :
        /\ calls[k].term.PaymentPreimage = 2
        /\ calls[k].term.ExternalPreimage
        /\ calls[k].term.PaymentHash \in Hashes
        /\ ~calls[k].noClient
        /\ cli.state = "made"
        /\ calls[k].g.preimage = 2

\* C23: with no local preimage stored, GetPaymentPreimage gives a temporary
\* error for an external term with no client configured, gives Retrieve's
\* error in the slot it came in when Retrieve fails, and gives the permanent
\* error "no preimage available on invoice" for a term that is not external.
C23_FailureClasses ==
    \A k \in GlueReturned :
        LET t == calls[k].term
            g == calls[k].g
            r == calls[k].res
        IN  t.PaymentPreimage = ZeroPreimage =>
                /\ (t.ExternalPreimage /\ calls[k].noClient) =>
                      /\ g.tempErr = "no extpreimage client configured"
                      /\ g.permErr = Nil /\ g.preimage = ZeroPreimage
                      /\ ~calls[k].remote
                /\ (t.ExternalPreimage /\ ~calls[k].noClient) =>
                      /\ calls[k].remote
                      /\ r.tempErr # Nil => g.tempErr = r.tempErr /\ g.permErr = Nil
                      /\ r.permErr # Nil => g.permErr = r.permErr /\ g.tempErr = Nil
                /\ ~t.ExternalPreimage =>
                      /\ g.permErr = "no preimage available on invoice"
                      /\ g.tempErr = Nil /\ g.preimage = ZeroPreimage
                      /\ ~calls[k].remote

C23_Witness ==
    \E k \in GlueReturned :
        /\ calls[k].term.PaymentPreimage = ZeroPreimage
        /\ calls[k].term.ExternalPreimage
        /\ calls[k].remote
        /\ calls[k].res.permErr = "boom"
        /\ calls[k].g.permErr = "boom"

\* call k of GetPaymentPreimage got a preimage from Retrieve
Retrieved(k) == calls[k].glue /\ calls[k].remote /\ Succeeded(k)

\* C24: when Retrieve succeeds GetPaymentPreimage writes the preimage to the
\* Invoice Store under the term's payment hash before it returns it; when
\* that write fails it returns the write's error as temporary error with the
\* zero preimage.
C24_PersistsBeforeReturning ==
    \A k \in GlueReturned :
        Retrieved(k) =>
            /\ calls[k].regErr = Nil =>
                  /\ calls[k].g.preimage = calls[k].res.preimage
                  /\ calls[k].g.tempErr = Nil /\ calls[k].g.permErr = Nil
                  /\ invoices[calls[k].term.PaymentHash].PaymentPreimage
                        = calls[k].res.preimage
            /\ calls[k].regErr # Nil =>
                  /\ calls[k].g.preimage = ZeroPreimage
                  /\ calls[k].g.tempErr = calls[k].regErr
                  /\ calls[k].g.permErr = Nil

C24_Witness ==
    \E k \in GlueReturned :
        /\ Retrieved(k)
        /\ calls[k].res.preimage = 1
        /\ calls[k].regErr = "io error"
        /\ calls[k].g.tempErr = "io error"

\* C25: the amount GetPaymentPreimage puts in the request is the invoice's
\* value in millisatoshis turned into whole satoshis, value divided by 1000
\* and rounded down (1000 gives 1); time lock and height pass unchanged.
C25_AmountInWholeSatoshis ==
    \A k \in CallIds :
        (calls[k].glue /\ calls[k].remote) =>
            /\ calls[k].req.Amount * 1000 <= calls[k].term.Value
            /\ calls[k].term.Value < (calls[k].req.Amount + 1) * 1000
            /\ calls[k].term.Value = 1000 => calls[k].req.Amount = 1
            /\ calls[k].req.TimeLock = calls[k].timeLock
            /\ calls[k].req.BestHeight = calls[k].currentHeight
            /\ calls[k].req.PaymentHash = calls[k].term.PaymentHash
            /\ calls[k].sent =>
                  /\ cli.wire # <<>>
                  /\ cli.wire[1].Amount = calls[k].req.Amount
                  /\ cli.wire[1].TimeLock = calls[k].req.TimeLock
                  /\ cli.wire[1].BestHeight = calls[k].req.BestHeight

C25_Witness ==
    \E k \in CallIds :
        /\ calls[k].glue /\ calls[k].sent
        /\ calls[k].term.Value = 1999
        /\ calls[k].req.Amount = 1
        /\ calls[k].req.TimeLock = 40
        /\ cli.wire[1].TimeLock = 40

\* LookupPreimage call n began after a call for the same hash had returned
\* on a permanent error
AfterPermanent(n) ==
    lk[n].pc # "idle" /\ lk[n].prev.via \in {"perm", "extperm"}

\* C26: a permanent failure is terminal for its payment hash: after a
\* resolution for the hash returned a permanent error, no later
\* LookupPreimage asks the remote service for it again and the hash does not
\* become resolved through the external path.
C26_PermanentFailureIsTerminal ==
    \A n \in LookupIds :
        AfterPermanent(n) =>
            /\ lk[n].pc # "recv"
            /\ lk[n].via \notin {"ext", "exttemp", "extperm"}

\* a delivery of add a to subscriber s is still waiting in its select
Pending(s, a) == \E d \in sends : d.sub = s /\ d.add = a

\* C27: a subscriber's cancellation unblocks every delivery pending for it:
\* once the cancel function has run, each delivery to that subscriber that is
\* still waiting, on a full update stream for one, ends.
C27_CancelUnblocksDeliveries ==
    \A s \in SubIds, a \in 1 .. MaxAdds :
        (Pending(s, a) /\ s \in quitClosed) ~> ~Pending(s, a)

C27_Witness ==
    \E s \in SubIds, a \in Adds :
        /\ s \in quitClosed
        /\ Len(updateChan[s]) = UpdateChanCap
        /\ Owes(s, a)
        /\ ~Pending(s, a)
        /\ placed[<<s, a>>] = <<>>

\* the subscriber ids in use or used before
EverSubscribed == subscribers \cup quitClosed

\* C28: every SubscribeUpdates call gets an id no other subscriber, current
\* or past, has, so that a subscription's cancel function removes its own
\* subscriber and leaves every other one registered.
C28_SubscriberIdsUnique ==
    /\ [](\A s \in EverSubscribed : s < clientCounter)
    /\ [][/\ subscribers' # subscribers /\ quitClosed' = quitClosed =>
                \E id \in SubIds :
                    /\ id \notin EverSubscribed
                    /\ id >= clientCounter /\ id < clientCounter'
                    /\ subscribers' = subscribers \cup {id}
          /\ quitClosed' # quitClosed =>
                \E id \in SubIds :
                    /\ quitClosed' = quitClosed \cup {id}
                    /\ subscribers' = subscribers \ {id}
                    /\ clientCounter' = clientCounter]_vars

C28_Witness ==
    /\ clientCounter = MaxSubs
    /\ quitClosed = {0}
    /\ subscribers = SubIds \ {0}

\* subscriber s is registered and its update stream is full
FullSubscriber(s) == s \in subscribers /\ Len(updateChan[s]) = UpdateChanCap

\* a delivery is waiting on a full update stream
Stalled == \E s \in SubIds, a \in Adds : FullSubscriber(s) /\ Pending(s, a)

\* C29: AddPreimage broadcasts asynchronously: it returns without waiting for
\* any subscriber, so a subscriber with a full update stream that is never
\* read holds up neither AddPreimage's return, nor the delivery to other
\* subscribers, nor later AddPreimage, SubscribeUpdates or LookupPreimage.
C29_BroadcastIsAsynchronous ==
    /\ [](Stalled =>
            /\ \A a \in Adds : addLog[a].ret = addLog[a].werr
            /\ CallerAdds < limits.adds =>
                  ENABLED (\E pre \in Preimages, werr \in StoreErrs : AddPreimage(pre, werr))
            /\ clientCounter < limits.subs => ENABLED SubscribeUpdates
            /\ (\E n \in LookupIds : NextLookup(n)) =>
                  ENABLED (\E n \in LookupIds, h \in Hashes, ioErr \in IoErrs,
                              wErr \in IoErrs : LookupPreimage(n, h, ioErr, wErr))
            /\ \A d \in sends :
                  Len(updateChan[d.sub]) < UpdateChanCap => ENABLED Notify(d))
    /\ \A s \in SubIds, a \in 1 .. MaxAdds :
          (Owes(s, a) /\ ~FullSubscriber(s)) ~>
              (placed[<<s, a>>] # <<>> \/ s \in quitClosed)

C29_Witness ==
    /\ Stalled
    /\ Len(addLog) = MaxAdds
    /\ \E s \in SubIds, a \in Adds :
          ~FullSubscriber(s) /\ Owes(s, a) /\ placed[<<s, a>>] # <<>>
    /\ \E n \in LookupIds : lk[n].pc = "done"

\* the tasks in the middle of their work on p.polls and p.pollCounter: a poll
\* between reading the counter and registering under it, a Stop call inside
\* its range over the registry
InRegistry ==
    {<<"poll", n>> : n \in {m \in LookupIds : pollG[m].pc = "reg"}}
    \cup {<<"stop", t>> : t \in {u \in StopIds : stopG[u].pc \in {"iter", "send"}}}

\* C30: the poll registry and the poll counter are touched only under the
\* beacon's lock, so never by two tasks at a time: this includes the
\* registration in pollExtpreimage and the iteration in Stop.
C30_RegistryUnderLock == Cardinality(InRegistry) <= 1

\* the polls that have registered and have not returned
Running == {n \in LookupIds : pollG[n].pc \in {"wait", "recv", "add"}}

\* C31: each running poll is in the poll registry under an id no other
\* running poll has, and a poll that has returned has no entry left: the
\* registry holds exactly the running polls.
C31_RegistryHoldsRunningPolls ==
    /\ \A n \in Running : polls[pollG[n].pollID] = n
    /\ \A n, m \in Running : n # m => pollG[n].pollID # pollG[m].pollID
    /\ \A id \in PollKeys :
          polls[id] # NoPoll => pollG[polls[id]].pc \in {"wait", "recv", "add", "exit"}

\* the poll of lookup n got a permanent error from its resolution
GotPermanent(n) == \E i \in 1 .. Len(pollG[n].hist) : pollG[n].hist[i] = "perm"

\* C32: a poll whose resolution returned a permanent error stops at once and
\* silently: it deregisters, makes no further attempt on a later tick, writes
\* nothing to the Witness Store and notifies no subscriber.
C32_PermanentErrorEndsPoll ==
    \A n \in LookupIds :
        GotPermanent(n) =>
            /\ pollG[n].pc \in {"exit", "done"}
            /\ pollG[n].hist[Len(pollG[n].hist)] = "perm"
            /\ \A i \in 1 .. (Len(pollG[n].hist) - 1) : pollG[n].hist[i] = "temp"
            /\ pollG[n].pc = "done" => polls[pollG[n].pollID] # n
            /\ PollAddsOf(n) = {}
            /\ pollG[n].wrote = 0
            /\ \A d \in sends : addLog[d.add].by # n
            /\ \A s \in SubIds, a \in Adds : addLog[a].by = n => placed[<<s, a>>] = <<>>

C32_Witness ==
    \E n \in LookupIds :
        /\ pollG[n].hist = <<"temp", "perm">>
        /\ pollG[n].pc = "done"
        /\ subscribers # {}
        /\ sends = {}
        /\ addLog = <<>>

\* the poll of lookup n resolved a preimage and has left its loop
StoppedOnSuccess(n) ==
    /\ pollG[n].pc \in {"exit", "done"}
    /\ pollG[n].hist # <<>>
    /\ pollG[n].hist[Len(pollG[n].hist)] = "ok"

\* C34: a poll stops because of success only after the preimage has been
\* stored in the Witness Store: a poll that left its loop after resolving a
\* preimage made an AddPreimage call that returned no error.
C34_PollStopsOnlyAfterStore ==
    \A n \in LookupIds :
        StoppedOnSuccess(n) =>
            \E a \in PollAddsOf(n) : addLog[a].werr = Nil /\ addLog[a].pre \in wCache

\* C33: the lazy connect of the single-connection client is not protected
\* against a first-call race: a call that has observed 'no connection' dials
\* whatever another call has stored since, every successful dial replaces the
\* stored connection (nothing closes the one it replaces), and a second
\* connection is created only by calls that overlap.
C33_FirstCallRaceDialsTwice ==
    ~cli.pooled =>
        /\ \A k \in CallIds : calls[k].pc = "dial" => ENABLED Dial(k, TRUE)
        /\ Dialled > 0 => cli.conn = Dialled
        /\ Dialled > 1 => cli.overlap
        /\ \A k \in CallIds : calls[k].dialed /\ calls[k].pc \notin {"dial", "done"} =>
              calls[k].sawConn \in 1 .. Dialled

\* two calls saw no connection and both dialled: the first connection is
\* no longer the stored one
C33_Witness ==
    /\ ~cli.pooled
    /\ Dialled = 2
    /\ cli.conn = 2
    /\ cli.dialLog[1].by # cli.dialLog[2].by
    /\ \A k \in CallIds : calls[k].dialed /\ ~calls[k].reused
    /\ \E k \in CallIds : calls[k].sawConn = 1

\* C35: at most one poll runs per payment hash: two running polls never poll
\* for the same payment hash.
C35_OnePollPerHash ==
    \A n, m \in Running :
        pollG[n].term.PaymentHash = pollG[m].term.PaymentHash => n = m

\* C36: once Stop has returned no poll is running and the poll registry
\* stays empty.
C36_NoPollAfterStop ==
    (\E t \in StopIds : stopG[t].pc = "done") =>
        /\ Running = {}
        /\ \A id \in PollKeys : polls[id] = NoPoll

\* C37: calling a cancel function more than once is harmless: no call of it
\* fails, whatever calls were made before.
C37_CancelTwiceHarmless == closedTwice = {}

\* C38: a subscriber gets the preimages in the order of the AddPreimage
\* calls: when the values of two calls, the first returned before the second
\* was made, are both on its stream, the value of the earlier call is ahead.
C38_DeliveredInCallOrder ==
    \A s \in SubIds : \A a, b \in Adds :
        (/\ a < b
         /\ addLog[a].pre # addLog[b].pre
         /\ placed[<<s, a>>] # <<>>
         /\ placed[<<s, b>>] # <<>>
         /\ Len(updateChan[s]) = 2)
        => updateChan[s] # <<addLog[b].pre, addLog[a].pre>>

\* C39: once a subscriber's cancel function has returned nothing more is put
\* on its update stream, even when a delivery of an earlier AddPreimage is
\* still pending.
C39_NothingPlacedAfterCancel ==
    [][\A s \in SubIds :
          s \in quitClosed => Len(updateChan'[s]) <= Len(updateChan[s])]_vars

\* C40: LookupPreimage writes nothing to the Witness Store and notifies no
\* subscriber, also when its synchronous resolution obtains a new preimage:
\* a step of a LookupPreimage call leaves the Witness Store, the pending
\* deliveries and the update streams as they are; the Witness Store and the
\* deliveries change only in an AddPreimage call, and a stream grows only by
\* the value of a delivery AddPreimage started.
C40_LookupWritesNoWitness ==
    [][/\ (\E n \in LookupIds : lk'[n].pc # lk[n].pc) =>
              /\ wCache' = wCache
              /\ sends' = sends
              /\ updateChan' = updateChan
              /\ addLog' = addLog
              /\ placed' = placed
       /\ (wCache' # wCache \/ ~(sends' \subseteq sends)) =>
              /\ Len(addLog') = Len(addLog) + 1
              /\ wCache' \subseteq wCache \cup {addLog'[Len(addLog')].pre}
       /\ \A s \in SubIds :
              Len(updateChan'[s]) > Len(updateChan[s]) =>
                  \E d \in sends \ sends' :
                      /\ d.sub = s
                      /\ d.add \in Adds
                      /\ updateChan'[s] = Append(updateChan[s], d.pre)]_vars

C40_Witness ==
    \E n \in LookupIds :
        /\ lk[n].pc = "done"
        /\ lk[n].via = "ext"
        /\ lk[n].found
        /\ invoices[lk[n].hash].PaymentPreimage = lk[n].preimage
        /\ subscribers # {}
        /\ wCache = {}
        /\ sends = {}
        /\ addLog = <<>>
        /\ \A s \in SubIds : updateChan[s] = <<>>

====
